---- MODULE Spec2Model ----
(***************************************************************************)
(* Deterministic checker and quality monitor of pesquisa-grafos:           *)
(* src/src/quality/checker.py and src/src/quality/monitor.py.              *)
(*                                                                         *)
(* Texts are strings; a character is a string of length one.  Offsets are  *)
(* 0-based as in Python (match.start()), indices into a string 1-based.    *)
(***************************************************************************)
EXTENDS Integers, Sequences, FiniteSets, TLC

(***************************************************************************)
(* Characters and the character classes the regular expressions use.      *)
(***************************************************************************)
Char(s, i) == IF i >= 1 /\ i <= Len(s) THEN SubSeq(s, i, i) ELSE ""

CharsOf(s) == { SubSeq(s, i, i) : i \in 1..Len(s) }

UpperAlpha == "ABCDEFGHIJKLMNOPQRSTUVWXYZÀÁÂÃÇÉÊÍÓÔÕÚ"

LowerAlpha == "abcdefghijklmnopqrstuvwxyzàáâãçéêíóôõú"

UpperSet == CharsOf(UpperAlpha)

LowerSet == CharsOf(LowerAlpha)

AsciiLetterSet == CharsOf("ABCDEFGHIJKLMNOPQRSTUVWXYZabcdefghijklmnopqrstuvwxyz")

DigitSet == CharsOf("0123456789")

SpaceSet == {" ", "\t", "\n"}

\* \w of Python 3: letters (º is a letter), digits and the underscore
WordSet == UpperSet \cup LowerSet \cup DigitSet \cup {"_", "º"}

LowerMap ==
    [c \in UpperSet |->
        Char(LowerAlpha, CHOOSE i \in 1..Len(UpperAlpha) : Char(UpperAlpha, i) = c)]

UpperMap ==
    [c \in LowerSet |->
        Char(UpperAlpha, CHOOSE i \in 1..Len(LowerAlpha) : Char(LowerAlpha, i) = c)]

ToLower(c) == IF c \in UpperSet THEN LowerMap[c] ELSE c

ToUpper(c) == IF c \in LowerSet THEN UpperMap[c] ELSE c

RECURSIVE lower(_)
lower(s) == IF s = "" THEN "" ELSE ToLower(Char(s, 1)) \o lower(Tail(s))

RECURSIVE upper(_)
upper(s) == IF s = "" THEN "" ELSE ToUpper(Char(s, 1)) \o upper(Tail(s))

\* str.strip()
RECURSIVE strip(_)
strip(s) ==
    IF s = "" THEN ""
    ELSE IF Char(s, 1) \in SpaceSet THEN strip(Tail(s))
    ELSE IF Char(s, Len(s)) \in SpaceSet THEN strip(SubSeq(s, 1, Len(s) - 1))
    ELSE s

\* re.sub(r'\s+', ' ', s)
RECURSIVE CollapseSpaces(_)
CollapseSpaces(s) ==
    IF s = "" THEN ""
    ELSE IF Char(s, 1) \in SpaceSet
         THEN IF Char(s, 2) \in SpaceSet
              THEN CollapseSpaces(Tail(s))
              ELSE " " \o CollapseSpaces(Tail(s))
         ELSE Char(s, 1) \o CollapseSpaces(Tail(s))

\* the first index >= i of t whose character is outside class C
RECURSIVE SkipClass(_, _, _)
SkipClass(t, i, C) ==
    IF i <= Len(t) /\ Char(t, i) \in C THEN SkipClass(t, i + 1, C) ELSE i

\* a literal at index i, case-sensitive and under re.IGNORECASE
MatchLit(t, i, lit) ==
    /\ i >= 1
    /\ i + Len(lit) - 1 <= Len(t)
    /\ SubSeq(t, i, i + Len(lit) - 1) = lit

MatchLitI(t, i, lit) ==
    /\ i >= 1
    /\ i + Len(lit) - 1 <= Len(t)
    /\ lower(SubSeq(t, i, i + Len(lit) - 1)) = lower(lit)

\* `sub in s` of Python
Contains(s, sub) == \E i \in 1..(Len(s) + 1) : MatchLit(s, i, sub)

\* \b at index i: between the characters i-1 and i
WordBoundary(t, i) == (Char(t, i - 1) \in WordSet) # (Char(t, i) \in WordSet)

SetMin(S) == CHOOSE x \in S : \A y \in S : x <= y

\* re.finditer / re.findall: leftmost non-overlapping matches, each [start, end)
\* with 1-based indices; M(t, i) is the index after the match at i, 0 if none
RECURSIVE FindIter(_, _, _)
FindIter(M(_, _), t, i) ==
    IF i > Len(t) THEN << >>
    ELSE LET e == M(t, i)
         IN  IF e = 0 THEN FindIter(M, t, i + 1)
             ELSE << [start |-> i, end |-> e] >> \o FindIter(M, t, e)

(***************************************************************************)
(* extrair_processos_citados: the case identifiers of a text.              *)
(***************************************************************************)
ProcessoClasses == << "HC", "RE", "RHC", "ADI", "ADPF", "MS", "AgR", "ED", "ARE" >>

\* (?:\.[\d]+)*
RECURSIVE DotGroups(_, _)
DotGroups(t, j) ==
    IF Char(t, j) = "." /\ Char(t, j + 1) \in DigitSet
    THEN DotGroups(t, SkipClass(t, j + 1, DigitSet))
    ELSE j

\* \s*[\d]+(?:\.[\d]+)*(?:/[A-Z]{2})? from index j
ProcessoRestEnd(t, j) ==
    LET a == SkipClass(t, j, SpaceSet)
    IN  IF Char(t, a) \notin DigitSet THEN 0
        ELSE LET b == DotGroups(t, SkipClass(t, a, DigitSet))
             IN  IF /\ Char(t, b) = "/"
                    /\ Char(t, b + 1) \in AsciiLetterSet
                    /\ Char(t, b + 2) \in AsciiLetterSet
                 THEN b + 3
                 ELSE b

ProcessoMatchEnd(t, i) ==
    IF ~WordBoundary(t, i) THEN 0
    ELSE LET ks == { k \in 1..Len(ProcessoClasses) :
                        /\ MatchLitI(t, i, ProcessoClasses[k])
                        /\ ProcessoRestEnd(t, i + Len(ProcessoClasses[k])) # 0 }
         IN  IF ks = {} THEN 0
             ELSE ProcessoRestEnd(t, i + Len(ProcessoClasses[SetMin(ks)]))

MatchText(t, m) == SubSeq(t, m.start, m.end - 1)

\* the set the list is built from; the list is this set in an order of its own
extrair_processos_citados(texto) ==
    LET matches == FindIter(ProcessoMatchEnd, texto, 1)
    IN  { CollapseSpaces(upper(strip(MatchText(texto, matches[k])))) :
            k \in 1..Len(matches) }

(***************************************************************************)
(* Claim and the references extrair_claims finds in a text.                *)
(***************************************************************************)
None == "None"

\* the value of a result variable while the call has returned nothing
NoResult == [returned |-> FALSE]

Claim(tipo, processo, valor) ==
    [tipo |-> tipo, processo |-> processo, valor |-> valor,
     verificado |-> FALSE, encontrado_no_kg |-> FALSE]

\* [A-ZÀ-Ú][a-zà-ú]+ from index j: the index after it, 0 if none
CapWordEnd(t, j) ==
    IF Char(t, j) \in UpperSet /\ Char(t, j + 1) \in LowerSet
    THEN SkipClass(t, j + 1, LowerSet)
    ELSE 0

\* (?:\s+[A-ZÀ-Ú][a-zà-ú]+){0,n} from index j, greedy
RECURSIVE MoreCapWords(_, _, _)
MoreCapWords(t, j, n) ==
    IF n = 0 \/ Char(t, j) \notin SpaceSet THEN j
    ELSE LET e == CapWordEnd(t, SkipClass(t, j, SpaceSet))
         IN  IF e = 0 THEN j ELSE MoreCapWords(t, e, n - 1)

\* [A-ZÀ-Ú][a-zà-ú]+(?:\s+[A-ZÀ-Ú][a-zà-ú]+){1,n} from index j
NomeEnd(t, j, n) ==
    LET a == CapWordEnd(t, j)
    IN  IF a = 0 THEN 0
        ELSE LET b == MoreCapWords(t, a, n)
             IN  IF b = a THEN 0 ELSE b

RelatorWords1 == << "relator", "relatora", "ministro", "ministra" >>

RelatorWords2 == << "Min.", "Ministro", "Ministra" >>

\* relator_patterns[0]: where group(1) starts for the alternative k at index i
Relator1NomeStart(t, i, k) ==
    LET a == SkipClass(t, i + Len(RelatorWords1[k]), SpaceSet)
        b == IF Char(t, a) \in {":", ","} THEN a + 1 ELSE a
    IN  SkipClass(t, b, SpaceSet)

Relator1Alts(t, i) ==
    { k \in 1..Len(RelatorWords1) :
        /\ MatchLit(t, i, RelatorWords1[k])
        /\ NomeEnd(t, Relator1NomeStart(t, i, k), 4) # 0 }

Relator1MatchEnd(t, i) ==
    IF Relator1Alts(t, i) = {} THEN 0
    ELSE NomeEnd(t, Relator1NomeStart(t, i, SetMin(Relator1Alts(t, i))), 4)

\* relator_patterns[1]
Relator2NomeStart(t, i, k) ==
    LET a == i + Len(RelatorWords2[k])
    IN  IF Char(t, a) \in SpaceSet THEN SkipClass(t, a, SpaceSet) ELSE 0

Relator2Alts(t, i) ==
    { k \in 1..Len(RelatorWords2) :
        /\ MatchLit(t, i, RelatorWords2[k])
        /\ Relator2NomeStart(t, i, k) # 0
        /\ NomeEnd(t, Relator2NomeStart(t, i, k), 3) # 0 }

Relator2MatchEnd(t, i) ==
    IF Relator2Alts(t, i) = {} THEN 0
    ELSE NomeEnd(t, Relator2NomeStart(t, i, SetMin(Relator2Alts(t, i))), 3)

\* the references of one relator pattern: offset (match.start()) and group(1)
RelatorRefs1(t) ==
    LET ms == FindIter(Relator1MatchEnd, t, 1)
    IN  [ k \in 1..Len(ms) |->
            [pos |-> ms[k].start - 1,
             valor |-> strip(SubSeq(t,
                 Relator1NomeStart(t, ms[k].start, SetMin(Relator1Alts(t, ms[k].start))),
                 ms[k].end - 1))] ]

RelatorRefs2(t) ==
    LET ms == FindIter(Relator2MatchEnd, t, 1)
    IN  [ k \in 1..Len(ms) |->
            [pos |-> ms[k].start - 1,
             valor |-> strip(SubSeq(t,
                 Relator2NomeStart(t, ms[k].start, SetMin(Relator2Alts(t, ms[k].start))),
                 ms[k].end - 1))] ]

\* artigo_pattern, under re.IGNORECASE
IncisoWords == << "inciso", "inc.", "§", "parágrafo" >>

PrepWords == << "do", "da", "dos", "das" >>

CodigoWords == << "CPP", "CFP", "CP", "CF", "Constituição" >>

RomanDigitSet == CharsOf("IVXLCDMivxlcdm") \cup DigitSet

\* [IVXLCDM\d]+ from index j
RomanEnd(t, j) ==
    IF Char(t, j) \in RomanDigitSet THEN SkipClass(t, j, RomanDigitSet) ELSE 0

\* (?:\s*,?\s*(?:inciso|inc\.|§|parágrafo)?\s*[IVXLCDM\d]+)? from index j
IncisoGroupEnd(t, j) ==
    LET a == SkipClass(t, j, SpaceSet)
        b == IF Char(t, a) = "," THEN a + 1 ELSE a
        c == SkipClass(t, b, SpaceSet)
        ks == { k \in 1..Len(IncisoWords) :
                  /\ MatchLitI(t, c, IncisoWords[k])
                  /\ RomanEnd(t, SkipClass(t, c + Len(IncisoWords[k]), SpaceSet)) # 0 }
    IN  IF ks # {}
        THEN RomanEnd(t, SkipClass(t, c + Len(IncisoWords[SetMin(ks)]), SpaceSet))
        ELSE IF RomanEnd(t, c) # 0 THEN RomanEnd(t, c)
        ELSE j

\* (?:C[PF]P?|CF|Constituição) from index j
CodigoEnd(t, j) ==
    LET ks == { k \in 1..Len(CodigoWords) : MatchLitI(t, j, CodigoWords[k]) }
    IN  IF ks = {} THEN 0 ELSE j + Len(CodigoWords[SetMin(ks)])

\* (?:\s*(?:do|da|dos|das)\s+(?:C[PF]P?|CF|Constituição))? from index j
CodigoGroupEnd(t, j) ==
    LET a == SkipClass(t, j, SpaceSet)
        AfterPrep(k) == a + Len(PrepWords[k])
        ks == { k \in 1..Len(PrepWords) :
                  /\ MatchLitI(t, a, PrepWords[k])
                  /\ Char(t, AfterPrep(k)) \in SpaceSet
                  /\ CodigoEnd(t, SkipClass(t, AfterPrep(k), SpaceSet)) # 0 }
    IN  IF ks = {} THEN j
        ELSE CodigoEnd(t, SkipClass(t, AfterPrep(SetMin(ks)), SpaceSet))

ArtigoMatchEnd(t, i) ==
    IF ~MatchLitI(t, i, "art") THEN 0
    ELSE LET a == IF Char(t, i + 3) = "." THEN i + 4 ELSE i + 3
             b == SkipClass(t, a, SpaceSet)
         IN  IF Char(t, b) \notin DigitSet THEN 0
             ELSE LET c == SkipClass(t, b, DigitSet)
                      d == IF Char(t, c) \in {"º", "°"} THEN c + 1 ELSE c
                  IN  CodigoGroupEnd(t, IncisoGroupEnd(t, d))

\* offset (match.start()) and group(0) of every article reference
ArtigoRefs(t) ==
    LET ms == FindIter(ArtigoMatchEnd, t, 1)
    IN  [ k \in 1..Len(ms) |->
            [pos |-> ms[k].start - 1, valor |-> strip(MatchText(t, ms[k]))] ]

(***************************************************************************)
(* _processo_mais_proximo                                                  *)
(***************************************************************************)
\* re.finditer(re.escape(proc), texto, re.IGNORECASE): the offsets of the
\* leftmost non-overlapping occurrences; p and t are proc and texto lowered
RECURSIVE OcorrenciasFrom(_, _, _)
OcorrenciasFrom(p, t, i) ==
    IF i > Len(t) \/ p = "" THEN << >>
    ELSE IF ~MatchLit(t, i, p) THEN OcorrenciasFrom(p, t, i + 1)
    ELSE << i - 1 >> \o OcorrenciasFrom(p, t, i + Len(p))

Ocorrencias(proc, texto) == OcorrenciasFrom(lower(proc), lower(texto), 1)

Abs(x) == IF x < 0 THEN 0 - x ELSE x

\* float('inf')
Inf == -1

\* MaisProximoInner with `dist <= menor_dist`: a tie goes to the later proc
RECURSIVE MaisProximoInnerUltimo(_, _, _, _, _)
MaisProximoInnerUltimo(st, proc, starts, k, posicao) ==
    IF k > Len(starts) THEN st
    ELSE LET dist == Abs(starts[k] - posicao)
         IN  MaisProximoInnerUltimo(
                 IF st.menor_dist = Inf \/ dist <= st.menor_dist
                 THEN [menor_dist |-> dist, mais_proximo |-> proc]
                 ELSE st,
                 proc, starts, k + 1, posicao)

\* the inner loop: the occurrences of one proc, in text order
RECURSIVE MaisProximoInner(_, _, _, _, _)
MaisProximoInner(st, proc, starts, k, posicao) ==
    IF k > Len(starts) THEN st
    ELSE LET dist == Abs(starts[k] - posicao)
         IN  MaisProximoInner(
                 IF st.menor_dist = Inf \/ dist < st.menor_dist
                 THEN [menor_dist |-> dist, mais_proximo |-> proc]
                 ELSE st,
                 proc, starts, k + 1, posicao)

\* the outer loop: the procs in list order
RECURSIVE MaisProximoLoop(_, _, _, _, _)
MaisProximoLoop(st, texto, posicao, processos, n) ==
    IF n > Len(processos) THEN st
    ELSE MaisProximoLoop(
             MaisProximoInner(st, processos[n],
                              Ocorrencias(processos[n], texto), 1, posicao),
             texto, posicao, processos, n + 1)

\* _processo_mais_proximo with `mais_proximo = None` before the loops
processo_mais_proximo_sem_padrao(texto, posicao, processos) ==
    IF processos = << >> THEN None
    ELSE MaisProximoLoop([menor_dist |-> Inf, mais_proximo |-> None],
                         texto, posicao, processos, 1).mais_proximo

processo_mais_proximo(texto, posicao, processos) ==
    IF processos = << >> THEN None
    ELSE MaisProximoLoop([menor_dist |-> Inf, mais_proximo |-> processos[1]],
                         texto, posicao, processos, 1).mais_proximo

(***************************************************************************)
(* extrair_claims                                                          *)
(***************************************************************************)
\* `if proc_mais_proximo and nome` / `if proc_mais_proximo`
Truthy(s) == s # None /\ s # ""

\* RefClaims without `if proc_mais_proximo`: a reference with no case
\* becomes a claim about None
RECURSIVE RefClaimsSemFiltro(_, _, _, _, _)
RefClaimsSemFiltro(tipo, refs, k, texto, processos) ==
    IF k > Len(refs) THEN << >>
    ELSE << Claim(tipo, processo_mais_proximo(texto, refs[k].pos, processos),
                  refs[k].valor) >>
         \o RefClaimsSemFiltro(tipo, refs, k + 1, texto, processos)

\* the claims of a list of references, each tied to its nearest processo
RECURSIVE RefClaims(_, _, _, _, _)
RefClaims(tipo, refs, k, texto, processos) ==
    IF k > Len(refs) THEN << >>
    ELSE LET proc == processo_mais_proximo(texto, refs[k].pos, processos)
         IN  (IF Truthy(proc) /\ Truthy(refs[k].valor)
              THEN << Claim(tipo, proc, refs[k].valor) >>
              ELSE << >>)
             \o RefClaims(tipo, refs, k + 1, texto, processos)

\* ClaimKey without `.lower()`
ClaimKeyExato(c) == << c.tipo, c.processo, c.valor >>

ClaimKey(c) == << c.tipo, c.processo, lower(c.valor) >>

\* "Remove claims duplicados": the first claim of every key, in order
RECURSIVE unique_claims(_, _, _)
unique_claims(claims, k, seen) ==
    IF k > Len(claims) THEN << >>
    ELSE IF ClaimKey(claims[k]) \in seen
         THEN unique_claims(claims, k + 1, seen)
         ELSE << claims[k] >>
              \o unique_claims(claims, k + 1, seen \cup {ClaimKey(claims[k])})

\* the list `claims` of extrair_claims before the duplicates are removed
raw_claims(texto, procs) ==
    [ k \in 1..Len(procs) |-> Claim("processo", procs[k], procs[k]) ]
    \o RefClaims("relator", RelatorRefs1(texto), 1, texto, procs)
    \o RefClaims("relator", RelatorRefs2(texto), 1, texto, procs)
    \o RefClaims("artigo", ArtigoRefs(texto), 1, texto, procs)

extrair_claims(texto, procs) == unique_claims(raw_claims(texto, procs), 1, {})

(***************************************************************************)
(* The knowledge graph behind _run_query: the nodes and relations the      *)
(* checker's Cypher statements read, each relation in the order its rows   *)
(* are returned.                                                           *)
(***************************************************************************)
RECURSIVE SelectRows(_, _, _)
SelectRows(rows, k, proc) ==
    IF k > Len(rows) THEN << >>
    ELSE (IF Contains(upper(rows[k].numero), upper(proc))
          THEN << rows[k] >> ELSE << >>)
         \o SelectRows(rows, k + 1, proc)

\* WHERE toUpper(p.numero) CONTAINS toUpper($n) RETURN p.numero
QueryProcesso(g, n) ==
    SelectRows([k \in 1..Len(g.processos) |-> [numero |-> g.processos[k]]], 1, n)

\* (p)-[:RELATADO_POR]->(m) ... RETURN m.nome AS nome
QueryRelator(g, proc) == SelectRows(g.relatado_por, 1, proc)

\* (p)-[:CITA_ARTIGO]->(a) ... RETURN a.artigo AS artigo
QueryArtigo(g, proc) == SelectRows(g.cita_artigo, 1, proc)

\* (p)-[:TRATA_DE]->(t) ... RETURN t.descricao AS descricao
QueryTema(g, proc) == SelectRows(g.trata_de, 1, proc)

\* (p)-[:TRATA_DE]->(t) RETURN p.numero AS processo, t.descricao AS tema
QueryTemas(g) ==
    [k \in 1..Len(g.trata_de) |->
        [processo |-> g.trata_de[k].numero, tema |-> g.trata_de[k].descricao]]

(***************************************************************************)
(* _verificar_processo, _verificar_relator, _verificar_artigo,             *)
(* _verificar_tema: the verdict on the rows a lookup returned.             *)
(***************************************************************************)
verificar_processo(g, numero) == Len(QueryProcesso(g, numero)) > 0

verificar_relator(g, processo, nome_relator) ==
    LET results == QueryRelator(g, processo)
    IN  IF results = << >> THEN FALSE
        ELSE LET nome_kg == lower(results[1].nome)
                 nome_claim == lower(nome_relator)
             IN  Contains(nome_kg, nome_claim) \/ Contains(nome_claim, nome_kg)

\* re.search(r'(\d+)', s).group(1), "" when there is no digit
RECURSIVE FirstNumber(_, _)
FirstNumber(s, i) ==
    IF i > Len(s) THEN ""
    ELSE IF Char(s, i) \in DigitSet
         THEN SubSeq(s, i, SkipClass(s, i, DigitSet) - 1)
         ELSE FirstNumber(s, i + 1)

verificar_artigo(g, processo, artigo_ref) ==
    LET results == QueryArtigo(g, processo)
        num_artigo == FirstNumber(artigo_ref, 1)
    IN  IF results = << >> THEN FALSE
        ELSE IF num_artigo = "" THEN FALSE
        ELSE \E k \in 1..Len(results) : Contains(results[k].artigo, num_artigo)

\* set(s.split())
RECURSIVE SplitSet(_, _)
SplitSet(s, i) ==
    IF i > Len(s) THEN {}
    ELSE IF Char(s, i) \in SpaceSet THEN SplitSet(s, i + 1)
    ELSE LET e == SkipClass(s, i, { c \in CharsOf(s) : c \notin SpaceSet })
         IN  {SubSeq(s, i, e - 1)} \cup SplitSet(s, e)

verificar_tema(g, processo, tema_desc) ==
    LET results == QueryTema(g, processo)
        tema_lower == lower(tema_desc)
    IN  IF results = << >> THEN FALSE
        ELSE \E k \in 1..Len(results) :
                LET desc_lower == lower(results[k].descricao)
                    overlap == SplitSet(tema_lower, 1) \cap SplitSet(desc_lower, 1)
                IN  \/ Cardinality(overlap) >= 2
                    \/ Contains(desc_lower, tema_lower)
                    \/ Contains(tema_lower, desc_lower)

\* the branch of verificar_claims for one claim; a kind with no branch
\* keeps encontrado_no_kg as it is
VerificarUm(g, claim) ==
    IF claim.tipo = "processo" THEN verificar_processo(g, claim.processo)
    ELSE IF claim.tipo = "relator"
         THEN verificar_relator(g, claim.processo, claim.valor)
    ELSE IF claim.tipo = "artigo"
         THEN verificar_artigo(g, claim.processo, claim.valor)
    ELSE IF claim.tipo = "tema"
         THEN verificar_tema(g, claim.processo, claim.valor)
    ELSE claim.encontrado_no_kg

(***************************************************************************)
(* _detectar_claim_negativo and _verificar_claim_negativo                  *)
(***************************************************************************)
padroes_negativos ==
    << "não consta", "não há registro", "não encontr", "não foram encontrad",
       "não exist", "não possui", "nenhuma decisão", "nenhum registro" >>

\* r"não consta nas \d+ decisões"
PadraoDecisoes(t) ==
    \E i \in 1..Len(t) :
        /\ MatchLit(t, i, "não consta nas ")
        /\ Char(t, i + 15) \in DigitSet
        /\ MatchLit(t, SkipClass(t, i + 15, DigitSet), " decisões")

detectar_claim_negativo(texto) ==
    LET texto_lower == lower(texto)
    IN  \/ \E k \in 1..Len(padroes_negativos) :
                Contains(texto_lower, padroes_negativos[k])
        \/ PadraoDecisoes(texto_lower)

sinonimos ==
    ("maconha" :> {"cannabis", "canábis", "marijuana", "cânhamo"}) @@
    ("cannabis" :> {"maconha", "canábis", "marijuana", "cânhamo"}) @@
    ("medicinal" :> {"medicinais", "médico", "médica", "terapêutico", "terapêutica"}) @@
    ("medicinais" :> {"medicinal", "médico", "médica", "terapêutico", "terapêutica"}) @@
    ("cultivo" :> {"plantio", "plantar", "cultivar", "plantação"}) @@
    ("drogas" :> {"entorpecentes", "narcóticos", "substâncias"}) @@
    ("saúde" :> {"sanitário", "sanitária", "médico", "médica"}) @@
    ("penal" :> {"criminal", "crime", "criminoso", "delito"}) @@
    ("preso" :> {"presa", "prisão", "detido", "detida", "encarcerado"}) @@
    ("liberdade" :> {"soltura", "solto", "livre", "liberação"})

stopwords ==
    { "quais", "qual", "que", "como", "onde", "quando", "decisões", "decisão",
      "decisoes", "decisao", "sobre", "citam", "cita", "tratam", "trata",
      "são", "sao", "foram", "pode", "podem", "tem", "têm", "dos", "das",
      "do", "da", "de", "em", "no", "na", "nos", "nas", "com", "por", "para",
      "uma", "um", "os", "as", "se", "ou", "ao", "aos", "à", "às", "o", "a",
      "e", "é", "uso", "tema", "falam", "fala" }

\* set(re.findall(r'\w+', s))
RECURSIVE Words(_, _)
Words(s, i) ==
    IF i > Len(s) THEN {}
    ELSE IF Char(s, i) \notin WordSet THEN Words(s, i + 1)
    ELSE LET e == SkipClass(s, i, WordSet)
         IN  {SubSeq(s, i, e - 1)} \cup Words(s, e)

\* palavras_query without `p.lower() not in stopwords`
palavras_query_sem_stopwords(q) ==
    { lower(p) : p \in { w \in Words(q, 1) : Len(w) > 2 } }

\* palavras_query without `len(p) > 2`
palavras_query_sem_tamanho(q) ==
    { lower(p) : p \in { w \in Words(q, 1) : lower(w) \notin stopwords } }

palavras_query(q) ==
    { lower(p) : p \in { w \in Words(q, 1) : Len(w) > 2 /\ lower(w) \notin stopwords } }

palavras_expandidas(q) ==
    palavras_query(q) \cup
    UNION { sinonimos[p] : p \in palavras_query(q) \cap DOMAIN sinonimos }

\* `len(overlap) >= 1` for one row: the exact overlap, else the partial one
TemaMatches(expandidas, tema) ==
    LET palavras_tema == Words(lower(tema), 1)
    IN  \/ expandidas \cap palavras_tema # {}
        \/ \E pq \in expandidas : \E pt \in palavras_tema :
              Len(pq) >= 4 /\ (Contains(pt, pq) \/ Contains(pq, pt))

NegacaoIncorreta(row) ==
    [tipo |-> "negação", processo |-> row.processo,
     valor |-> "Analista negou existência, mas KG tem: " \o row.tema,
     verificado |-> TRUE, encontrado_no_kg |-> FALSE]

\* the dash of the source's message is written "-" here
NegacaoCorreta ==
    [tipo |-> "negação", processo |-> "N/A",
     valor |-> "Analista negou existência - KG confirma ausência",
     verificado |-> TRUE, encontrado_no_kg |-> TRUE]

\* NegacaoLoop with a `break` after the first matching row
RECURSIVE NegacaoLoopPrimeiro(_, _, _)
NegacaoLoopPrimeiro(temas_kg, k, expandidas) ==
    IF k > Len(temas_kg) THEN << >>
    ELSE IF TemaMatches(expandidas, temas_kg[k].tema)
         THEN << NegacaoIncorreta(temas_kg[k]) >>
         ELSE NegacaoLoopPrimeiro(temas_kg, k + 1, expandidas)

RECURSIVE NegacaoLoop(_, _, _)
NegacaoLoop(temas_kg, k, expandidas) ==
    IF k > Len(temas_kg) THEN << >>
    ELSE (IF TemaMatches(expandidas, temas_kg[k].tema)
          THEN << NegacaoIncorreta(temas_kg[k]) >> ELSE << >>)
         \o NegacaoLoop(temas_kg, k + 1, expandidas)

\* _verificar_claim_negativo without the `if not claims` branch
verificar_claim_negativo_sem_padrao(q, temas_kg) ==
    NegacaoLoop(temas_kg, 1, palavras_expandidas(q))

\* _verificar_claim_negativo with the claim of a correct negation appended
\* without the `if not claims` test
verificar_claim_negativo_sem_teste(q, temas_kg) ==
    NegacaoLoop(temas_kg, 1, palavras_expandidas(q)) \o << NegacaoCorreta >>

\* _verificar_claim_negativo on the rows the theme scan returned
verificar_claim_negativo(q, temas_kg) ==
    LET found == NegacaoLoop(temas_kg, 1, palavras_expandidas(q))
    IN  IF found = << >> THEN << NegacaoCorreta >> ELSE found

(***************************************************************************)
(* run_checker: the score and the CheckerResult.                           *)
(***************************************************************************)
RECURSIVE GCD(_, _)
GCD(a, b) == IF b = 0 THEN a ELSE GCD(b, a % b)

\* a score is the fraction num/den in lowest terms (floats are not rounded)
Frac(n, d) == [num |-> n \div GCD(n, d), den |-> d \div GCD(n, d)]

\* Score without `* 100`
ScoreSemPercentual(ok, total) == IF total > 0 THEN Frac(ok, total) ELSE Frac(0, 1)

\* score = (ok / total * 100) if total > 0 else 0.0
Score(ok, total) == IF total > 0 THEN Frac(ok * 100, total) ELSE Frac(0, 1)

\* sum(1 for c in claims if c.encontrado_no_kg)
CountOk(cs) == Cardinality({ k \in 1..Len(cs) : cs[k].encontrado_no_kg })

\* CheckerResult whose verificados_ok leaves the negation claims out
CheckerResultSemNegacao(cs) ==
    LET ok == Cardinality({ k \in 1..Len(cs) :
                              cs[k].encontrado_no_kg /\ cs[k].tipo # "negação" })
    IN  [total_claims |-> Len(cs),
         verificados_ok |-> ok,
         verificados_falha |-> Len(cs) - ok,
         score |-> Score(ok, Len(cs)),
         claims |-> cs,
         concordancia_llm |-> Frac(0, 1)]

CheckerResult(cs) ==
    [total_claims |-> Len(cs),
     verificados_ok |-> CountOk(cs),
     verificados_falha |-> Len(cs) - CountOk(cs),
     score |-> Score(CountOk(cs), Len(cs)),
     claims |-> cs,
     concordancia_llm |-> Frac(0, 1)]

\* ClaimVerificado without `claim.verificado = True`
ClaimVerificadoSemMarca(g, claim) ==
    [claim EXCEPT !.encontrado_no_kg = VerificarUm(g, claim)]

\* what verificar_claims does to one claim when its lookup returns
ClaimVerificado(g, claim) ==
    [claim EXCEPT !.verificado = TRUE, !.encontrado_no_kg = VerificarUm(g, claim)]

\* the claim when its lookup raises: `claim.verificado = True` has run
ClaimInterrompido(claim) == [claim EXCEPT !.verificado = TRUE]

\* the outcomes of one _run_query call: rows, or the driver's exception
RunQueryOutcomes == {"rows", "ServiceUnavailable"}

\* list({...}): the set in an order the program does not choose
Orders(S) ==
    { f \in [1..Cardinality(S) -> S] : { f[k] : k \in 1..Cardinality(S) } = S }

(***************************************************************************)
(* Inputs: answer texts built from a few phrases, questions, graphs.       *)
(***************************************************************************)
MaxSegs == 3

Segments ==
    << "HC 161.450 ", "RE 9 ", "Min. Gilmar Mendes ", "art. 5 ", "Art. 5 ",
       "nenhum registro " >>

RECURSIVE Concats(_)
Concats(n) ==
    IF n = 0 THEN {""}
    ELSE Concats(n - 1) \cup
         { p \o Segments[k] : p \in Concats(n - 1), k \in 1..Len(Segments) }

AnalystTexts == Concats(MaxSegs)

Queries == { "Quais decisoes tratam de cannabis?" }

KGVazio ==
    [processos |-> << >>, relatado_por |-> << >>, cita_artigo |-> << >>,
     trata_de |-> << >>]

KGPenal ==
    [processos |-> << "HC 161.450", "RE 9" >>,
     relatado_por |-> << [numero |-> "HC 161.450", nome |-> "Rosa Weber"],
                         [numero |-> "RE 9", nome |-> "Min. Gilmar Mendes"] >>,
     cita_artigo |-> << [numero |-> "RE 9", artigo |-> "art. 5, XXXV da CF"] >>,
     trata_de |-> << [numero |-> "HC 161.450",
                      descricao |-> "habeas corpus preventivo"],
                     [numero |-> "RE 9",
                      descricao |-> "cultivo de cannabis para fins medicinais"],
                     [numero |-> "RE 9",
                      descricao |-> "progressao de regime"] >>]

KGs == { KGVazio, KGPenal }

\* the inputs of the negation check: answers that deny, more questions, and
\* graphs with every list of at most MaxRows theme rows
NegTexts ==
    { "Não consta nenhuma decisão sobre isso.", "O HC 161.450 não existe.",
      "O HC 161.450 consta." }

NegQueries ==
    { "", "Quais decisões tratam de cannabis?", "canábis medicinal",
      "O que há sobre uso de drogas?", "medic", "De que tema trata o uso do HC?",
      "Existe HC?" }

MaxRows == 2

TemaRows ==
    << [numero |-> "HC 161.450", descricao |-> "uso medicinal de canábis"],
       [numero |-> "RE 1.513.210", descricao |-> "Cultivo de Cannabis"],
       [numero |-> "ADI 4.983",
        descricao |-> "cabimento de HC em tráfico de entorpecentes"] >>

RECURSIVE RowLists(_)
RowLists(n) ==
    IF n = 0 THEN { << >> }
    ELSE RowLists(n - 1) \cup
         { Append(l, TemaRows[k]) : l \in RowLists(n - 1), k \in 1..Len(TemaRows) }

NegKGs ==
    { [processos |-> << "HC 161.450" >>,
       relatado_por |-> << [numero |-> "HC 161.450", nome |-> "Gilmar Mendes"] >>,
       cita_artigo |-> << >>,
       trata_de |-> rows] : rows \in RowLists(MaxRows) }

(***************************************************************************)
(* State.                                                                  *)
(***************************************************************************)
VARIABLES
    analyst_text,       \* run_checker's analyst_text
    query,              \* run_checker's query
    kg,                 \* the content of the data source
    pc,                 \* where the call is
    claims,             \* run_checker's claims
    processos,          \* the list extrair_processos_citados returned
    claims_positivos,   \* run_checker's claims_positivos
    idx,                \* verificar_claims: the index of the next claim
    queries,            \* the _run_query calls issued so far, in order
    result,             \* the CheckerResult returned, NoResult before
    raised,             \* the exception that left the call, None if none
    posicao,            \* _processo_mais_proximo's posicao
    mais_proximo,       \* what _processo_mais_proximo returned
    reviewer_text,      \* parse_metrics_from_review's reviewer_text
    metrics,            \* the QualityMetrics returned, NoResult before
    log_file,           \* logs/quality_log.jsonl: its lines, in file order
    log_inicial,        \* (history) the log file when the run began
    escritos,           \* (history) the entries log_quality was given, in call order
    entries,            \* what load_quality_log returned, NoResult before
    report,             \* what print_quality_report printed, NoResult before
    writers,            \* the log_quality invocations: position, entry, offset
    now,                \* datetime.now(), in ticks
    comparison          \* what comparar_com_llm returned, NoResult before

vars ==
    << analyst_text, query, kg, pc, claims, processos, claims_positivos, idx,
       queries, result, raised, posicao, mais_proximo, reviewer_text, metrics,
       log_file, log_inicial, escritos, entries, report, writers, now,
       comparison >>

\* the quality log and its callers
logvars ==
    << log_file, log_inicial, escritos, entries, report, writers, now, comparison >>

LogIdle ==
    /\ log_file = << >>
    /\ log_inicial = << >>
    /\ escritos = << >>
    /\ entries = NoResult
    /\ report = NoResult
    /\ writers = << >>
    /\ now = 0
    /\ comparison = NoResult

inputs == << analyst_text, query, kg >>

\* what run_checker does not touch
outside == << posicao, mais_proximo, reviewer_text, metrics, logvars >>

OutsideIdle ==
    /\ posicao = 0
    /\ mais_proximo = None
    /\ reviewer_text = None
    /\ metrics = NoResult
    /\ LogIdle

CheckerStart ==
    /\ pc = "run_checker"
    /\ claims = << >>
    /\ processos = << >>
    /\ claims_positivos = << >>
    /\ idx = 0
    /\ queries = << >>
    /\ result = NoResult
    /\ raised = None

Init ==
    /\ analyst_text \in AnalystTexts
    /\ query \in Queries
    /\ kg \in KGs
    /\ CheckerStart
    /\ OutsideIdle

InitNeg ==
    /\ analyst_text \in NegTexts
    /\ query \in NegQueries
    /\ kg \in NegKGs
    /\ CheckerStart
    /\ OutsideIdle

\* Detectar with the extraction done first, before the negation check
DetectarDepoisDeExtrair ==
    /\ pc = "run_checker"
    /\ \E ps \in Orders(extrair_processos_citados(analyst_text)) :
          /\ processos' = ps
          /\ claims_positivos' = extrair_claims(analyst_text, ps)
    /\ idx' = 1
    /\ pc' = IF detectar_claim_negativo(analyst_text) THEN "negativo" ELSE "verificar"
    /\ UNCHANGED << inputs, claims, queries, result, raised, outside >>

\* `if _detectar_claim_negativo(analyst_text):`
Detectar ==
    /\ pc = "run_checker"
    /\ pc' = IF detectar_claim_negativo(analyst_text) THEN "negativo" ELSE "extrair"
    /\ UNCHANGED << inputs, claims, processos, claims_positivos, idx, queries,
                    result, raised, outside >>

\* `claims.extend(_verificar_claim_negativo(query))`: the theme scan
VerificarClaimNegativo ==
    /\ pc = "negativo"
    /\ \E o \in RunQueryOutcomes :
          /\ queries' = Append(queries, [kind |-> "temas", outcome |-> o])
          /\ IF o = "rows"
                THEN /\ claims' = claims \o
                            verificar_claim_negativo(query, QueryTemas(kg))
                     /\ pc' = "extrair"
                     /\ UNCHANGED raised
                ELSE /\ raised' = o
                     /\ pc' = "raised"
                     /\ UNCHANGED claims
    /\ UNCHANGED << inputs, processos, claims_positivos, idx, result, outside >>

\* `processos = extrair_processos_citados(...)`, `extrair_claims(...)`
ExtrairClaims ==
    /\ pc = "extrair"
    /\ \E ps \in Orders(extrair_processos_citados(analyst_text)) :
          /\ processos' = ps
          /\ claims_positivos' = extrair_claims(analyst_text, ps)
    /\ idx' = 1
    /\ pc' = "verificar"
    /\ UNCHANGED << inputs, claims, queries, result, raised, outside >>

\* VerificarClaim with the outcome kept per case: a claim about a case
\* that an earlier claim of the list was about takes the outcome of that
\* earlier claim
VerificarClaimComCache ==
    /\ pc = "verificar"
    /\ idx <= Len(claims_positivos)
    /\ \E o \in RunQueryOutcomes :
          /\ queries' = Append(queries,
                               [kind |-> claims_positivos[idx].tipo, outcome |-> o])
          /\ IF o = "rows"
                THEN /\ LET antes == { j \in 1..(idx - 1) :
                                        claims_positivos[j].processo =
                                            claims_positivos[idx].processo }
                        IN  claims_positivos' =
                              [claims_positivos EXCEPT
                                 ![idx] =
                                    IF antes = {}
                                       THEN ClaimVerificado(kg, claims_positivos[idx])
                                       ELSE [claims_positivos[idx] EXCEPT
                                               !.verificado = TRUE,
                                               !.encontrado_no_kg =
                                                  claims_positivos[CHOOSE j \in antes : TRUE]
                                                     .encontrado_no_kg]]
                     /\ idx' = idx + 1
                     /\ UNCHANGED << pc, raised >>
                ELSE /\ claims_positivos' =
                            [claims_positivos EXCEPT
                                ![idx] = ClaimInterrompido(claims_positivos[idx])]
                     /\ raised' = o
                     /\ pc' = "raised"
                     /\ UNCHANGED idx
    /\ UNCHANGED << inputs, claims, processos, result, outside >>

\* VerificarClaim with a lookup of the case before the lookup of a reporter
\* or of an article
VerificarClaimDuasConsultas ==
    /\ pc = "verificar"
    /\ idx <= Len(claims_positivos)
    /\ \E o \in RunQueryOutcomes :
          /\ queries' = queries \o
                (IF claims_positivos[idx].tipo = "processo"
                    THEN << >>
                    ELSE << [kind |-> "processo", outcome |-> o] >>) \o
                << [kind |-> claims_positivos[idx].tipo, outcome |-> o] >>
          /\ IF o = "rows"
                THEN /\ claims_positivos' =
                            [claims_positivos EXCEPT
                                ![idx] = ClaimVerificado(kg, claims_positivos[idx])]
                     /\ idx' = idx + 1
                     /\ UNCHANGED << pc, raised >>
                ELSE /\ claims_positivos' =
                            [claims_positivos EXCEPT
                                ![idx] = ClaimInterrompido(claims_positivos[idx])]
                     /\ raised' = o
                     /\ pc' = "raised"
                     /\ UNCHANGED idx
    /\ UNCHANGED << inputs, claims, processos, result, outside >>

\* VerificarClaim with the lookup in a try/except that counts a failed
\* lookup as "not found" and goes on to the next claim
VerificarClaimTolerante ==
    /\ pc = "verificar"
    /\ idx <= Len(claims_positivos)
    /\ \E o \in RunQueryOutcomes :
          /\ queries' = Append(queries,
                               [kind |-> claims_positivos[idx].tipo, outcome |-> o])
          /\ claims_positivos' =
                [claims_positivos EXCEPT
                    ![idx] = IF o = "rows"
                             THEN ClaimVerificado(kg, claims_positivos[idx])
                             ELSE ClaimInterrompido(claims_positivos[idx])]
    /\ idx' = idx + 1
    /\ UNCHANGED << inputs, claims, processos, result, pc, raised, outside >>

\* one iteration of the loop of verificar_claims
VerificarClaim ==
    /\ pc = "verificar"
    /\ idx <= Len(claims_positivos)
    /\ \E o \in RunQueryOutcomes :
          /\ queries' = Append(queries,
                               [kind |-> claims_positivos[idx].tipo, outcome |-> o])
          /\ IF o = "rows"
                THEN /\ claims_positivos' =
                            [claims_positivos EXCEPT
                                ![idx] = ClaimVerificado(kg, claims_positivos[idx])]
                     /\ idx' = idx + 1
                     /\ UNCHANGED << pc, raised >>
                ELSE /\ claims_positivos' =
                            [claims_positivos EXCEPT
                                ![idx] = ClaimInterrompido(claims_positivos[idx])]
                     /\ raised' = o
                     /\ pc' = "raised"
                     /\ UNCHANGED idx
    /\ UNCHANGED << inputs, claims, processos, result, outside >>

\* Agregar with the negation claims appended after the others
AgregarNegacaoNoFim ==
    /\ pc = "verificar"
    /\ idx > Len(claims_positivos)
    /\ claims' = claims_positivos \o claims
    /\ result' = CheckerResult(claims_positivos \o claims)
    /\ pc' = "done"
    /\ UNCHANGED << inputs, processos, claims_positivos, idx, queries, raised,
                    outside >>

\* `claims.extend(claims_positivos)` and the CheckerResult
Agregar ==
    /\ pc = "verificar"
    /\ idx > Len(claims_positivos)
    /\ claims' = claims \o claims_positivos
    /\ result' = CheckerResult(claims \o claims_positivos)
    /\ pc' = "done"
    /\ UNCHANGED << inputs, processos, claims_positivos, idx, queries, raised,
                    outside >>

Next ==
    \/ Detectar
    \/ VerificarClaimNegativo
    \/ ExtrairClaims
    \/ VerificarClaim
    \/ Agregar

Spec == Init /\ [][Next]_vars

SpecNeg == InitNeg /\ [][Next]_vars

(***************************************************************************)
(* _processo_mais_proximo called on its own: any text, any offset into it, *)
(* any list of case identifiers.                                           *)
(***************************************************************************)
MaxProxSegs == 2

\* pieces of text: an occurrence, one in lower case, one the literal scan
\* does not find (two spaces), one whose occurrences overlap, and filler
ProxSegments ==
    << "HC 161.450, ", "hc 161.450 ", "HC  161.450 ", "MS 1/MS 1/MS ", "e " >>

RECURSIVE ProxConcats(_)
ProxConcats(n) ==
    IF n = 0 THEN { "" }
    ELSE LET shorter == ProxConcats(n - 1)
         IN  shorter \cup { t \o ProxSegments[k] :
                              t \in shorter, k \in 1..Len(ProxSegments) }

ProxTexts == ProxConcats(MaxProxSegs)

ProxProcessos ==
    { << >>, << "HC 161.450" >>, << "MS 1/MS" >>,
      << "HC 161.450", "MS 1/MS" >>, << "MS 1/MS", "HC 161.450" >> }

InitProx ==
    /\ analyst_text \in ProxTexts
    /\ posicao \in 0..Len(analyst_text)
    /\ processos \in ProxProcessos
    /\ pc = "mais_proximo"
    /\ mais_proximo = None
    /\ query = ""
    /\ kg = KGVazio
    /\ claims = << >>
    /\ claims_positivos = << >>
    /\ idx = 0
    /\ queries = << >>
    /\ result = NoResult
    /\ raised = None
    /\ reviewer_text = None
    /\ metrics = NoResult
    /\ LogIdle

\* a call of _processo_mais_proximo(texto, posicao, processos)
MaisProximo ==
    /\ pc = "mais_proximo"
    /\ mais_proximo' = processo_mais_proximo(analyst_text, posicao, processos)
    /\ pc' = "returned"
    /\ UNCHANGED << inputs, claims, processos, claims_positivos, idx, queries,
                    result, raised, posicao, reviewer_text, metrics, logvars >>

NextProx == MaisProximo

SpecProx == InitProx /\ [][NextProx]_vars

(***************************************************************************)
(* parse_metrics_from_review.  A reviewer text is held as what the three   *)
(* re.search calls capture from it, and each capture as the document       *)
(* json.loads makes of it.                                                 *)
(***************************************************************************)
\* a JSON value after json.loads: t is its Python type, n a number (tenths
\* for a float, 1/0 for a bool), s a str, l a list of str
J(t, n, s, l) == [t |-> t, n |-> n, s |-> s, l |-> l]

JMissing == J("missing", 0, "", << >>)      \* the key is not in the dict
JNull == J("NoneType", 0, "", << >>)
JBool(b) == J("bool", IF b THEN 1 ELSE 0, "", << >>)
JInt(n) == J("int", n, "", << >>)
JBigInt == J("bigint", 0, "", << >>)         \* an int beyond the float range
JFloat(tenths) == J("float", tenths, "", << >>)
JInfinity == J("inf", 0, "", << >>)          \* json.loads reads Infinity
JNaN == J("nan", 0, "", << >>)               \* json.loads reads NaN
JStr(s) == J("str", 0, s, << >>)
JList(l) == J("list", 0, "", l)

IsDigits(s) == s # "" /\ \A i \in 1..Len(s) : Char(s, i) \in DigitSet

DigitValue ==
    [c \in DigitSet |-> CHOOSE d \in 0..9 : SubSeq("0123456789", d + 1, d + 1) = c]

RECURSIVE DigitsValue(_)
DigitsValue(s) ==
    IF s = "" THEN 0
    ELSE 10 * DigitsValue(SubSeq(s, 1, Len(s) - 1)) + DigitValue[Char(s, Len(s))]

\* a str of the form digits "." digit
IsDecimal(s) ==
    /\ Len(s) >= 3
    /\ Char(s, Len(s) - 1) = "."
    /\ IsDigits(SubSeq(s, 1, Len(s) - 2))
    /\ Char(s, Len(s)) \in DigitSet

\* what a conversion gives: the exception it raises ("" if none) and its value
Converted(v) == [exc |-> "", val |-> v]
Raises(e) == [exc |-> e, val |-> JMissing]

\* float(x) for the values above; a str is a run of digits, digits "." digit,
\* or not a number
float(x) ==
    CASE x.t = "bool" -> Converted(JFloat(10 * x.n))
      [] x.t = "int" -> Converted(JFloat(10 * x.n))
      [] x.t = "bigint" -> Raises("OverflowError")
      [] x.t = "float" -> Converted(x)
      [] x.t = "inf" -> Converted(x)
      [] x.t = "nan" -> Converted(x)
      [] x.t = "str" ->
            IF IsDigits(x.s) THEN Converted(JFloat(10 * DigitsValue(x.s)))
            ELSE IF IsDecimal(x.s)
            THEN Converted(JFloat(10 * DigitsValue(SubSeq(x.s, 1, Len(x.s) - 2))
                                  + DigitValue[Char(x.s, Len(x.s))]))
            ELSE Raises("ValueError")
      [] OTHER -> Raises("TypeError")

\* int(x) for the values above: a float is truncated towards zero
int(x) ==
    CASE x.t = "bool" -> Converted(JInt(x.n))
      [] x.t = "int" -> Converted(x)
      [] x.t = "bigint" -> Converted(x)
      [] x.t = "float" ->
            Converted(JInt(IF x.n >= 0 THEN x.n \div 10 ELSE 0 - ((0 - x.n) \div 10)))
      [] x.t = "inf" -> Raises("OverflowError")
      [] x.t = "nan" -> Raises("ValueError")
      [] x.t = "str" ->
            IF IsDigits(x.s) THEN Converted(JInt(DigitsValue(x.s)))
            ELSE Raises("ValueError")
      [] OTHER -> Raises("TypeError")

\* data.get(key): None for a missing key
GetSemDefault(data, key, default) == IF data[key] = JMissing THEN JNull ELSE data[key]

\* data.get(key, default)
Get(data, key, default) == IF data[key] = JMissing THEN default ELSE data[key]

\* QualityMetrics()
QualityMetrics ==
    [validado |-> JBool(FALSE),
     score_fidelidade |-> JFloat(0),
     total_afirmacoes |-> JInt(0),
     verificadas_ok |-> JInt(0),
     sem_fundamentacao |-> JInt(0),
     processos_verificados |-> JList(<< >>),
     problemas |-> JList(<< >>)]

Keys ==
    << "validado", "score_fidelidade", "total_afirmacoes", "verificadas_ok",
       "sem_fundamentacao", "processos_verificados", "problemas" >>

EmptyObject == [k \in { Keys[i] : i \in 1..Len(Keys) } |-> JMissing]

\* what a capture is: no match of the pattern, a text json.loads rejects, a
\* JSON value that is not an object (in v), or an object (its keys in fields)
NoMatch == [t |-> "nomatch", v |-> JMissing, fields |-> EmptyObject]
Invalid == [t |-> "invalid", v |-> JMissing, fields |-> EmptyObject]
Value(v) == [t |-> "value", v |-> v, fields |-> EmptyObject]
Object(fields) == [t |-> "object", v |-> JMissing, fields |-> fields]

\* Match with a fall-through: the first capture that is a JSON object
MatchPrimeiroObjeto(text) ==
    IF text.metrics_block.t = "object" THEN text.metrics_block
    ELSE IF text.json_block.t = "object" THEN text.json_block
    ELSE text.inline

\* the three re.search calls: the first pattern that matches gives the match
Match(text) ==
    IF text.metrics_block # NoMatch THEN text.metrics_block
    ELSE IF text.json_block # NoMatch THEN text.json_block
    ELSE text.inline

\* the keyword arguments of the QualityMetrics(...) call, evaluated in order
Conversions(data) ==
    << Converted(Get(data, "validado", JBool(FALSE))),
       float(Get(data, "score_fidelidade", JFloat(0))),
       int(Get(data, "total_afirmacoes", JInt(0))),
       int(Get(data, "verificadas_ok", JInt(0))),
       int(Get(data, "sem_fundamentacao", JInt(0))),
       Converted(Get(data, "processos_verificados", JList(<< >>))),
       Converted(Get(data, "problemas", JList(<< >>))) >>

\* the body of the try: the exception it raises ("" if none), else the value
TryBody(match) ==
    IF match.t = "invalid" THEN [exc |-> "JSONDecodeError", val |-> QualityMetrics]
    ELSE IF match.t = "value" THEN [exc |-> "AttributeError", val |-> QualityMetrics]
    ELSE LET cs == Conversions(match.fields)
             failed == { i \in 1..Len(cs) : cs[i].exc # "" }
         IN  IF failed # {}
             THEN [exc |-> cs[SetMin(failed)].exc, val |-> QualityMetrics]
             ELSE [exc |-> "",
                   val |-> [validado |-> cs[1].val,
                            score_fidelidade |-> cs[2].val,
                            total_afirmacoes |-> cs[3].val,
                            verificadas_ok |-> cs[4].val,
                            sem_fundamentacao |-> cs[5].val,
                            processos_verificados |-> cs[6].val,
                            problemas |-> cs[7].val]]

\* `except (json.JSONDecodeError, ValueError, TypeError):`
Caught == { "JSONDecodeError", "ValueError", "TypeError" }

\* the call: the exception that leaves it ("" if none) and the value returned
parse_metrics_from_review(text) ==
    LET match == Match(text)
    IN  IF match = NoMatch THEN [exc |-> "", val |-> QualityMetrics]
        ELSE LET r == TryBody(match)
             IN  IF r.exc \in Caught THEN [exc |-> "", val |-> QualityMetrics]
                 ELSE r

MaxKeys == 1

\* the values a reviewer may write under each key
FieldValues ==
    [validado : { JMissing, JBool(TRUE), JBool(FALSE), JStr("yes") },
     score_fidelidade : { JMissing, JFloat(855), JInt(90), JStr("85"), JStr("85.5"),
                          JStr("abc"), JNull, JBigInt },
     total_afirmacoes : { JMissing, JInt(3), JFloat(39), JStr("7"), JStr("3.5"),
                          JInfinity, JNaN },
     verificadas_ok : { JMissing, JInt(2), JList(<< >>) },
     sem_fundamentacao : { JMissing, JInt(1) },
     processos_verificados : { JMissing, JList(<< "HC 161.450" >>) },
     problemas : { JMissing, JList(<< >>), JStr("nenhum") }]

Present(fields) == { i \in 1..Len(Keys) : fields[Keys[i]] # JMissing }

\* the objects with the required keys and at most n more
ObjectsWith(required, n) ==
    { Object(f) : f \in { g \in FieldValues :
                            /\ \A k \in required : g[k] # JMissing
                            /\ Cardinality(Present(g)) <= Cardinality(required) + n } }

FullObject ==
    Object([validado |-> JBool(TRUE),
            score_fidelidade |-> JFloat(855),
            total_afirmacoes |-> JInt(3),
            verificadas_ok |-> JInt(2),
            sem_fundamentacao |-> JInt(1),
            processos_verificados |-> JList(<< "HC 161.450" >>),
            problemas |-> JList(<< >>)])

\* ```quality_metrics ... ```: the capture is any text
MetricsBlocks ==
    { NoMatch, Invalid, Value(JNull), Value(JList(<< >>)), Value(JStr("abc")),
      Value(JInt(7)), FullObject }
    \cup ObjectsWith({}, MaxKeys)

\* ``` {...score_fidelidade...} ```: the capture is braces around the key
JsonBlocks ==
    { NoMatch, Invalid } \cup ObjectsWith({ "score_fidelidade" }, MaxKeys)

\* {"validado" ... "problemas": [...]}: the capture starts with the first
\* key and ends with the list of the last
Inlines ==
    { NoMatch, Invalid, FullObject }
    \cup { o \in ObjectsWith({ "validado", "problemas" }, MaxKeys) :
             o.fields.problemas.t = "list" }

FewMetricsBlocks == { NoMatch, Invalid, Value(JList(<< >>)), FullObject }

FewJsonBlocks ==
    { NoMatch, Invalid,
      Object([EmptyObject EXCEPT !.score_fidelidade = JInt(90)]) }

FewInlines ==
    { NoMatch, Invalid,
      Object([EmptyObject EXCEPT !.validado = JBool(TRUE),
                                 !.problemas = JList(<< >>)]) }

ReviewerTexts ==
    [metrics_block : MetricsBlocks, json_block : FewJsonBlocks, inline : FewInlines]
    \cup
    [metrics_block : FewMetricsBlocks, json_block : JsonBlocks, inline : FewInlines]
    \cup
    [metrics_block : FewMetricsBlocks, json_block : FewJsonBlocks, inline : Inlines]

InitParse ==
    /\ reviewer_text \in ReviewerTexts
    /\ pc = "parse_metrics"
    /\ metrics = NoResult
    /\ raised = None
    /\ analyst_text = ""
    /\ query = ""
    /\ kg = KGVazio
    /\ claims = << >>
    /\ processos = << >>
    /\ claims_positivos = << >>
    /\ idx = 0
    /\ queries = << >>
    /\ result = NoResult
    /\ posicao = 0
    /\ mais_proximo = None
    /\ LogIdle

\* a call of parse_metrics_from_review(reviewer_text)
ParseMetricsFromReview ==
    /\ pc = "parse_metrics"
    /\ LET r == parse_metrics_from_review(reviewer_text)
       IN  IF r.exc = ""
           THEN /\ metrics' = r.val
                /\ raised' = None
                /\ pc' = "returned"
           ELSE /\ metrics' = metrics
                /\ raised' = r.exc
                /\ pc' = "raised"
    /\ UNCHANGED << inputs, claims, processos, claims_positivos, idx, queries,
                    result, posicao, mais_proximo, reviewer_text, logvars >>

NextParse == ParseMetricsFromReview

SpecParse == InitParse /\ [][NextParse]_vars

(***************************************************************************)
(* Properties of run_checker.                                              *)
(***************************************************************************)
\* extrair_claims has just returned
Extraido == pc = "verificar" /\ idx = 1 /\ raised = None

NegClaims(cs) == SelectSeq(cs, LAMBDA c : c.tipo = "negação")

NegacaoFeita ==
    /\ queries # << >>
    /\ queries[1] = [kind |-> "temas", outcome |-> "rows"]

\* C1: no claim is ever confirmed (encontrado_no_kg) without being verified
\* (verificado): not among the negation claims, not among the claims being
\* verified, not in the CheckerResult returned.
C1_ConfirmadoImplicaVerificado ==
    /\ \A k \in 1..Len(claims) :
          claims[k].encontrado_no_kg => claims[k].verificado
    /\ \A k \in 1..Len(claims_positivos) :
          claims_positivos[k].encontrado_no_kg => claims_positivos[k].verificado
    /\ result # NoResult =>
          \A k \in 1..Len(result.claims) :
              result.claims[k].encontrado_no_kg => result.claims[k].verificado

\* a confirmed claim in the middle of verificar_claims, after a negation claim
C1_Witness ==
    /\ pc = "verificar"
    /\ idx <= Len(claims_positivos)
    /\ \E k \in 1..Len(claims_positivos) : claims_positivos[k].encontrado_no_kg
    /\ NegClaims(claims) # << >>

\* C2: the score returned is verificados_ok / total_claims * 100 when there
\* are claims and 0.0 when there are none; an answer with no negation phrase
\* and no case identifier raises nothing and yields total 0 and score 0.0.
C2_Score ==
    /\ result # NoResult =>
          /\ result.score.den > 0
          /\ result.total_claims > 0 =>
                result.score.num * result.total_claims =
                    100 * result.verificados_ok * result.score.den
          /\ result.total_claims = 0 => result.score.num = 0
    /\ (/\ Extraido
        /\ ~detectar_claim_negativo(analyst_text)
        /\ extrair_processos_citados(analyst_text) = {}) =>
          /\ claims = << >>
          /\ claims_positivos = << >>
          /\ queries = << >>
    /\ queries = << >> => raised = None /\ pc # "raised"
    /\ (pc = "done" /\ queries = << >>) =>
          result.total_claims = 0 /\ result.score.num = 0

\* a result with one claim confirmed out of three
C2_Witness ==
    /\ pc = "done"
    /\ result.total_claims = 3
    /\ result.verificados_ok = 1

\* C3: in the result, total_claims is the length of the claims list,
\* verificados_ok the number of its confirmed claims, and
\* total_claims = verificados_ok + verificados_falha.
C3_Contagens ==
    result # NoResult =>
        /\ result.total_claims = Len(result.claims)
        /\ result.verificados_ok =
              Cardinality({ k \in 1..Len(result.claims) :
                              result.claims[k].encontrado_no_kg })
        /\ result.total_claims = result.verificados_ok + result.verificados_falha
        /\ result.claims = claims

\* a result holding negation claims and confirmed and unconfirmed claims
C3_Witness ==
    /\ pc = "done"
    /\ NegClaims(result.claims) # << >>
    /\ result.verificados_ok >= 1
    /\ result.verificados_falha >= 2

QueryFailed == \E k \in 1..Len(queries) : queries[k].outcome # "rows"

\* C4: once a query has failed, in the theme scan or in a lookup, the pass
\* has ended with the data source's error and no CheckerResult is returned.
C4_FalhaFatal ==
    QueryFailed =>
        /\ pc = "raised"
        /\ raised = "ServiceUnavailable"
        /\ result = NoResult
        /\ queries[Len(queries)].outcome # "rows"
        /\ \A k \in 1..(Len(queries) - 1) : queries[k].outcome = "rows"

\* a lookup fails after the theme scan and an earlier lookup have succeeded
C4_Witness ==
    /\ pc = "raised"
    /\ Len(queries) >= 3
    /\ queries[1].kind = "temas"
    /\ claims_positivos[1].encontrado_no_kg

RowsMatching(q, g) ==
    SelectSeq(QueryTemas(g),
              LAMBDA row : TemaMatches(palavras_expandidas(q), row.tema))

\* C5: when the theme scan has returned and no row matches the expanded
\* keywords of the question, there is exactly one negation claim, confirmed,
\* verified, with subject "N/A".
C5_NegacaoCorreta ==
    (NegacaoFeita /\ RowsMatching(query, kg) = << >>) =>
        /\ Len(NegClaims(claims)) = 1
        /\ NegClaims(claims)[1].processo = "N/A"
        /\ NegClaims(claims)[1].encontrado_no_kg
        /\ NegClaims(claims)[1].verificado

\* theme rows exist, none matches the question, the pass has finished
C5_Witness ==
    /\ pc = "done"
    /\ NegacaoFeita
    /\ Len(kg.trata_de) = 2
    /\ query # ""
    /\ RowsMatching(query, kg) = << >>

\* C6: when the theme scan has returned, every matching row has its own
\* negation claim, unconfirmed, about the row's case, in row order, so the
\* unconfirmed negation claims are as many as the matching rows; a question
\* with "cannabis" and the theme "uso medicinal de canábis" of HC 161.450
\* give one unconfirmed negation claim about HC 161.450.
C6_NegacaoIncorreta ==
    NegacaoFeita =>
        LET unconfirmed == SelectSeq(NegClaims(claims),
                                     LAMBDA c : ~c.encontrado_no_kg)
            rows == RowsMatching(query, kg)
        IN  /\ Len(unconfirmed) = Len(rows)
            /\ \A k \in 1..Len(rows) :
                  /\ unconfirmed[k].processo = rows[k].processo
                  /\ unconfirmed[k].verificado
            /\ (/\ query = "Quais decisões tratam de cannabis?"
                /\ kg.trata_de = << TemaRows[1] >>) =>
                  /\ Len(NegClaims(claims)) = 1
                  /\ NegClaims(claims)[1].processo = "HC 161.450"
                  /\ ~NegClaims(claims)[1].encontrado_no_kg

\* two rows of two cases match the question with "cannabis"
C6_Witness ==
    /\ pc = "done"
    /\ NegacaoFeita
    /\ query = "Quais decisões tratam de cannabis?"
    /\ kg.trata_de = << TemaRows[1], TemaRows[2] >>
    /\ Len(NegClaims(claims)) = 2

KeyOf(c) == << c.tipo, c.processo, lower(c.valor) >>

FirstWithKey(cs, key) == SetMin({ k \in 1..Len(cs) : KeyOf(cs[k]) = key })

\* C7: the list extrair_claims returns has no two claims with the same
\* (tipo, processo, lowercased valor); of the claims extracted with one key
\* it keeps the first, in extraction order.
C7_SemDuplicados ==
    Extraido =>
        LET raw == raw_claims(analyst_text, processos)
            kept == claims_positivos
        IN  /\ \A i, j \in 1..Len(kept) :
                  KeyOf(kept[i]) = KeyOf(kept[j]) => i = j
            /\ { KeyOf(kept[k]) : k \in 1..Len(kept) } =
               { KeyOf(raw[k]) : k \in 1..Len(raw) }
            /\ \A i \in 1..Len(kept) :
                  kept[i].valor = raw[FirstWithKey(raw, KeyOf(kept[i]))].valor
            /\ \A i, j \in 1..Len(kept) :
                  i < j => FirstWithKey(raw, KeyOf(kept[i])) <
                           FirstWithKey(raw, KeyOf(kept[j]))

\* "art. 5" and "Art. 5" were extracted for one case and one claim is kept
C7_Witness ==
    /\ Extraido
    /\ LET raw == raw_claims(analyst_text, processos)
       IN  \E i, j \in 1..Len(raw) :
              /\ i < j
              /\ raw[i].valor # raw[j].valor
              /\ KeyOf(raw[i]) = KeyOf(raw[j])
    /\ Len(claims_positivos) = 2

\* the offsets at which proc occurs in the text, overlapping ones included,
\* the case of letters ignored
TodasOcorrencias(proc) ==
    { i - 1 : i \in { j \in 1..Len(analyst_text) :
                        MatchLitI(analyst_text, j, proc) } }

\* the offsets the left-to-right scan for proc finds
Achadas(proc) ==
    LET starts == Ocorrencias(proc, analyst_text)
    IN  { starts[k] : k \in 1..Len(starts) }

Distancias(offsets) == { Abs(o - posicao) : o \in offsets }

\* the positions of the list whose identifier the scan finds in the text
ComAchadas == { k \in 1..Len(processos) : Achadas(processos[k]) # {} }

MenorDistancia ==
    SetMin(UNION { Distancias(Achadas(processos[k])) : k \in ComAchadas })

Vencedores ==
    { k \in ComAchadas : MenorDistancia \in Distancias(Achadas(processos[k])) }

\* C8: for a non-empty list, when the left-to-right, non-overlapping,
\* case-insensitive scan finds at least one listed identifier in the text,
\* _processo_mais_proximo returns the identifier with the found occurrence
\* whose start is nearest to the offset, the first in list order among
\* several at the same distance; when the scan finds none of them, it
\* returns the first identifier of the list.
C8_MaisProximo ==
    (pc = "returned" /\ processos # << >>) =>
        IF ComAchadas = {}
        THEN mais_proximo = processos[1]
        ELSE mais_proximo = processos[SetMin(Vencedores)]

\* two identifiers at the same smallest distance, the one that comes later
\* in the text first in the list, and returned
C8_Witness ==
    /\ pc = "returned"
    /\ processos = << "MS 1/MS", "HC 161.450" >>
    /\ Cardinality(Vencedores) = 2
    /\ SetMin(Achadas("HC 161.450")) < SetMin(Achadas("MS 1/MS"))
    /\ mais_proximo = "MS 1/MS"

\* C8 as stated: the identifier returned has an occurrence in the text, no
\* occurrence of a listed identifier is nearer to the offset, and among the
\* identifiers with an occurrence at that distance it is the first of the list
C8_Original ==
    (pc = "returned" /\ processos # << >>) =>
        \E k \in 1..Len(processos) :
            /\ mais_proximo = processos[k]
            /\ TodasOcorrencias(processos[k]) # {}
            /\ \A j \in 1..Len(processos) :
                  \A d \in Distancias(TodasOcorrencias(processos[j])) :
                      LET mine == SetMin(Distancias(TodasOcorrencias(processos[k])))
                      IN  mine < d \/ (mine = d /\ k <= j)

\* C9: with no case identifier in the text, _processo_mais_proximo returns
\* None for every reporter or article reference, extrair_claims returns no
\* claim and raises nothing, and no claim has an empty or missing subject.
C9_ReferenciaDescartada ==
    Extraido =>
        /\ \A k \in 1..Len(claims_positivos) :
              claims_positivos[k].processo \notin {"", None}
        /\ processos = << >> =>
              /\ claims_positivos = << >>
              /\ raised = None
              /\ \A r \in { RelatorRefs2(analyst_text)[k] :
                              k \in 1..Len(RelatorRefs2(analyst_text)) }
                       \cup { ArtigoRefs(analyst_text)[k] :
                              k \in 1..Len(ArtigoRefs(analyst_text)) } :
                    processo_mais_proximo(analyst_text, r.pos, processos) = None

\* a reporter and an article are named, no case is, and extrair_claims has
\* returned the empty list
C9_Witness ==
    /\ Extraido
    /\ processos = << >>
    /\ RelatorRefs2(analyst_text) # << >>
    /\ ArtigoRefs(analyst_text) # << >>
    /\ claims_positivos = << >>

(***************************************************************************)
(* Properties of parse_metrics_from_review.                                *)
(***************************************************************************)
SemObjeto ==
    \A b \in { reviewer_text.metrics_block, reviewer_text.json_block,
               reviewer_text.inline } : b.t # "object"

\* C10: once parse_metrics_from_review has been called, no exception has
\* left it and a QualityMetrics has been returned, the all-default one when
\* none of the three captures is a JSON object.
C10_NuncaPropaga ==
    (pc \in { "returned", "raised" }) =>
        /\ raised = None
        /\ metrics # NoResult
        /\ SemObjeto => metrics = QualityMetrics

Chamado == pc \in { "returned", "raised" }

\* the captures of the three patterns, in the order the patterns are tried
Capturas ==
    << reviewer_text.metrics_block, reviewer_text.json_block, reviewer_text.inline >>

\* an object all of whose conversions succeed
Convertivel(c) == c.t = "object" /\ TryBody(c).exc = ""

\* C11: the three patterns are tried in order and only the capture of the
\* first pattern that matches is parsed: when that capture is not valid JSON
\* the call returns the all-default QualityMetrics, and when it is an object
\* whose fields convert the call returns that object's metrics, whatever
\* the later patterns would capture.
C11_PrimeiroPadrao ==
    Chamado =>
        \A k \in 1..3 :
            (/\ Capturas[k] # NoMatch
             /\ \A j \in 1..(k - 1) : Capturas[j] = NoMatch) =>
                /\ Capturas[k].t = "invalid" =>
                      /\ pc = "returned"
                      /\ raised = None
                      /\ metrics = QualityMetrics
                /\ Convertivel(Capturas[k]) =>
                      /\ pc = "returned"
                      /\ metrics = TryBody(Capturas[k]).val

\* a labeled block that is not valid JSON, a valid inline fragment after it,
\* and the defaults returned
C11_Witness ==
    /\ pc = "returned"
    /\ reviewer_text.metrics_block = Invalid
    /\ reviewer_text.json_block = NoMatch
    /\ reviewer_text.inline = FullObject
    /\ metrics = QualityMetrics

\* C11 as stated: the first capture, in pattern order, that is a JSON object
\* whose fields convert gives the metrics, the captures before it that are
\* not valid JSON being passed over
C11_Original ==
    Chamado =>
        \A k \in 1..3 :
            (/\ Convertivel(Capturas[k])
             /\ \A j \in 1..(k - 1) : Capturas[j].t \in { "nomatch", "invalid" }) =>
                /\ pc = "returned"
                /\ metrics = TryBody(Capturas[k]).val

\* every number written in the object is one float() or int() accepts
CamposConvertem(f) ==
    /\ f.score_fidelidade # JMissing => float(f.score_fidelidade).exc = ""
    /\ \A k \in { "total_afirmacoes", "verificadas_ok", "sem_fundamentacao" } :
          f[k] # JMissing => int(f[k]).exc = ""

\* C12: with no labeled and no fenced block captured and an inline fragment
\* that is an object whose fields convert, the call returns a QualityMetrics
\* holding the fragment's value under every key present (validado true when
\* the fragment says so) and the default under every key missing: false,
\* 0.0, 0, 0, 0, [] and [].
C12_FragmentoInline ==
    (/\ Chamado
     /\ reviewer_text.metrics_block = NoMatch
     /\ reviewer_text.json_block = NoMatch
     /\ reviewer_text.inline.t = "object"
     /\ CamposConvertem(reviewer_text.inline.fields)) =>
        LET f == reviewer_text.inline.fields
        IN  /\ pc = "returned"
            /\ raised = None
            /\ metrics.validado = f.validado
            /\ f.validado = JBool(TRUE) => metrics.validado = JBool(TRUE)
            /\ metrics.problemas = f.problemas
            /\ f.score_fidelidade = JMissing => metrics.score_fidelidade = JFloat(0)
            /\ f.score_fidelidade # JMissing =>
                  metrics.score_fidelidade = float(f.score_fidelidade).val
            /\ \A k \in { "total_afirmacoes", "verificadas_ok", "sem_fundamentacao" } :
                  /\ f[k] = JMissing => metrics[k] = JInt(0)
                  /\ f[k] # JMissing => metrics[k] = int(f[k]).val
            /\ f.processos_verificados = JMissing =>
                  metrics.processos_verificados = JList(<< >>)
            /\ f.processos_verificados # JMissing =>
                  metrics.processos_verificados = f.processos_verificados

\* only an inline fragment {"validado": true, "problemas": []}: validado is
\* true in the metrics returned and every other field has its default
C12_Witness ==
    /\ pc = "returned"
    /\ reviewer_text.metrics_block = NoMatch
    /\ reviewer_text.json_block = NoMatch
    /\ reviewer_text.inline =
          Object([EmptyObject EXCEPT !.validado = JBool(TRUE),
                                     !.problemas = JList(<< >>)])
    /\ metrics = [QualityMetrics EXCEPT !.validado = JBool(TRUE)]

\* ---------------------------------------------------------------------
\* src/quality/monitor.py: the quality log. A line of the file is the JSON
\* document it holds; the scalars of a record are kept as the text
\* json.dumps writes.

Digits == "0123456789"

\* str(n), n >= 0
RECURSIVE IntToStr(_)
IntToStr(n) ==
    IF n < 10 THEN SubSeq(Digits, n + 1, n + 1)
    ELSE IntToStr(n \div 10) \o SubSeq(Digits, (n % 10) + 1, (n % 10) + 1)

\* json.dumps of the characters of a str that leaves the newline as it is
RECURSIVE EscapeSemNewline(_)
EscapeSemNewline(s) ==
    IF s = "" THEN ""
    ELSE LET c == Char(s, 1)
         IN  (CASE c = "\"" -> "\\\""
                [] c = "\\" -> "\\\\"
                [] OTHER -> c) \o EscapeSemNewline(SubSeq(s, 2, Len(s)))

\* json.dumps of the characters of a str: ", \ and the newline are escaped
RECURSIVE Escape(_)
Escape(s) ==
    IF s = "" THEN ""
    ELSE LET c == Char(s, 1)
         IN  (CASE c = "\"" -> "\\\""
                [] c = "\\" -> "\\\\"
                [] c = "\n" -> "\\n"
                [] OTHER -> c) \o Escape(SubSeq(s, 2, Len(s)))

\* json.loads of the characters between the quotes of a string literal
RECURSIVE Unescape(_)
Unescape(s) ==
    IF s = "" THEN ""
    ELSE IF Char(s, 1) = "\\" /\ Len(s) >= 2
    THEN (IF Char(s, 2) = "n" THEN "\n" ELSE Char(s, 2))
         \o Unescape(SubSeq(s, 3, Len(s)))
    ELSE Char(s, 1) \o Unescape(SubSeq(s, 2, Len(s)))

\* json.dumps of a scalar
Dumps(v) ==
    CASE v.t = "bool" -> IF v.n = 1 THEN "true" ELSE "false"
      [] v.t = "int" -> IntToStr(v.n)
      [] v.t = "float" -> IntToStr(v.n \div 10) \o "." \o IntToStr(v.n % 10)
      [] v.t = "inf" -> "Infinity"
      [] v.t = "nan" -> "NaN"
      [] v.t = "NoneType" -> "null"
      [] v.t = "str" -> "\"" \o Escape(v.s) \o "\""

\* json.loads of a scalar literal
Loads(lit) ==
    CASE lit = "true" -> JBool(TRUE)
      [] lit = "false" -> JBool(FALSE)
      [] lit = "null" -> JNull
      [] lit = "Infinity" -> JInfinity
      [] lit = "NaN" -> JNaN
      [] IsDigits(lit) -> JInt(DigitsValue(lit))
      [] IsDecimal(lit) ->
            JFloat(10 * DigitsValue(SubSeq(lit, 1, Len(lit) - 2))
                   + DigitValue[Char(lit, Len(lit))])
      [] OTHER -> JStr(Unescape(SubSeq(lit, 2, Len(lit) - 1)))

\* the fields of QualityMetrics
KeySet == { Keys[i] : i \in 1..Len(Keys) }

Scalars ==
    { "validado", "score_fidelidade", "total_afirmacoes", "verificadas_ok",
      "sem_fundamentacao" }

\* QualityLogEntry(timestamp, query, metrics, analyst_chars, reviewer_chars)
QualityLogEntry(timestamp, q, m, analyst_chars, reviewer_chars) ==
    [timestamp |-> timestamp, query |-> q, metrics |-> m,
     analyst_chars |-> analyst_chars, reviewer_chars |-> reviewer_chars]

\* json.dumps(asdict(metrics)): the object and the keys it has
DumpsMetrics(m) ==
    [t |-> "object", keys |-> KeySet,
     fields |-> [k \in KeySet |-> IF k \in Scalars THEN Dumps(m[k]) ELSE m[k]]]

\* json.dumps(entry_dict): asdict(entry), and "checker" if a result was given
DumpsEntry(entry, checker_result) ==
    [t |-> "object",
     keys |-> { "timestamp", "query", "metrics", "analyst_chars", "reviewer_chars" }
              \cup (IF checker_result = NoResult THEN { } ELSE { "checker" }),
     timestamp |-> Dumps(JStr(IntToStr(entry.timestamp))),
     query |-> Dumps(JStr(entry.query)),
     metrics |-> DumpsMetrics(entry.metrics),
     analyst_chars |-> Dumps(JInt(entry.analyst_chars)),
     reviewer_chars |-> Dumps(JInt(entry.reviewer_chars)),
     checker |-> checker_result]

\* lines that are not records
Blank == [t |-> "blank"]                 \* nothing but white space
InvalidJson == [t |-> "invalid"]         \* not a JSON document
NonObject == [t |-> "value"]             \* a JSON document that is no object

\* the lines of the file that the text `doc + "\n"` makes: a raw newline in
\* the text cuts it in two, neither of them a JSON document
TextLines(doc) ==
    IF Contains(doc.query, "\n") THEN << InvalidJson, InvalidJson >> ELSE << doc >>

\* open(LOG_FILE, "w"): the content is dropped
OpenTruncate(file) == << >>

\* open(LOG_FILE, "a"): the content stays, a missing file is created empty
OpenAppend(file) == file

\* a write at the offset the file had when it was opened
WriteAtOffset(file, pos, lines) ==
    SubSeq(file, 1, pos) \o lines \o SubSeq(file, pos + Len(lines) + 1, Len(file))

\* the one write of an O_APPEND file: at the end the file has at that moment
WriteAtEnd(file, pos, lines) == file \o lines

\* QualityMetrics(**data.get("metrics", {}))
LoadsMetrics(doc) ==
    IF "metrics" \notin doc.keys THEN Converted(QualityMetrics)
    ELSE IF doc.metrics.t # "object" THEN Raises("TypeError")
    ELSE IF ~(doc.metrics.keys \subseteq KeySet) THEN Raises("TypeError")
    ELSE Converted([k \in KeySet |->
            IF k \notin doc.metrics.keys THEN QualityMetrics[k]
            ELSE IF k \in Scalars THEN Loads(doc.metrics.fields[k])
            ELSE doc.metrics.fields[k]])

\* the body of load_quality_log's loop for one line: the entry, or the
\* exception raised ("" with no entry for a blank line)
LoadsLine(line) ==
    CASE line.t = "blank" -> [exc |-> "", entry |-> << >>]
      [] line.t = "invalid" -> [exc |-> "JSONDecodeError", entry |-> << >>]
      [] line.t = "value" -> [exc |-> "AttributeError", entry |-> << >>]
      [] OTHER ->
            LET m == LoadsMetrics(line)
            IN  IF m.exc # "" THEN [exc |-> m.exc, entry |-> << >>]
                ELSE IF "timestamp" \notin line.keys \/ "query" \notin line.keys
                THEN [exc |-> "KeyError", entry |-> << >>]
                ELSE [exc |-> "",
                      entry |-> << [timestamp |-> Loads(line.timestamp).s,
                                    query |-> Loads(line.query).s,
                                    metrics |-> m.val,
                                    analyst_chars |->
                                        IF "analyst_chars" \in line.keys
                                        THEN Loads(line.analyst_chars).n ELSE 0,
                                    reviewer_chars |->
                                        IF "reviewer_chars" \in line.keys
                                        THEN Loads(line.reviewer_chars).n ELSE 0] >>]

\* except (json.JSONDecodeError, KeyError, TypeError): continue
LoadCaught == { "JSONDecodeError", "KeyError", "TypeError" }

\* load_quality_log's loop from line k on, acc the entries so far
RECURSIVE LoadLines(_, _, _)
LoadLines(file, k, acc) ==
    IF k > Len(file) THEN [exc |-> "", val |-> acc]
    ELSE LET r == LoadsLine(file[k])
         IN  IF r.exc \in LoadCaught \cup { "" }
             THEN LoadLines(file, k + 1, acc \o r.entry)
             ELSE [exc |-> r.exc, val |-> << >>]

\* load_quality_log()
load_quality_log(file) == LoadLines(file, 1, << >>)

\* a score in tenths
Tenths(v) == IF v.t = "float" THEN v.n ELSE 10 * v.n

\* f"{num / den:.1f}" for num / den in tenths: the nearest tenth, a tie going
\* to the even digit
Fmt1(num, den) ==
    LET q == num \div den
        r == num % den
        t == IF 2 * r > den \/ (2 * r = den /\ q % 2 = 1) THEN q + 1 ELSE q
    IN  IntToStr(t \div 10) \o "." \o IntToStr(t % 10)

RECURSIVE SumOf(_)
SumOf(ns) == IF ns = << >> THEN 0 ELSE Head(ns) + SumOf(Tail(ns))

RECURSIVE MinOf(_)
MinOf(ns) ==
    IF Len(ns) = 1 THEN ns[1]
    ELSE LET m == MinOf(Tail(ns)) IN IF m < ns[1] THEN m ELSE ns[1]

RECURSIVE MaxOf(_)
MaxOf(ns) ==
    IF Len(ns) = 1 THEN ns[1]
    ELSE LET m == MaxOf(Tail(ns)) IN IF m > ns[1] THEN m ELSE ns[1]

\* [e.metrics.<key> for e in entries], a score in tenths
Column(es, key) ==
    [k \in 1..Len(es) |->
        CASE key = "score_fidelidade" -> Tenths(es[k].metrics[key])
          [] key = "validado" -> IF es[k].metrics[key].n # 0 THEN 1 ELSE 0
          [] OTHER -> es[k].metrics[key].n]

\* what print_quality_report prints for the entries loaded
Report(es) ==
    IF es = << >> THEN [printed |-> TRUE, vazio |-> TRUE]
    ELSE LET scores == Column(es, "score_fidelidade")
         IN  [printed |-> TRUE, vazio |-> FALSE,
              total |-> Len(es),
              medio |-> Fmt1(SumOf(scores), Len(scores)),
              minimo |-> Fmt1(MinOf(scores), 1),
              maximo |-> Fmt1(MaxOf(scores), 1),
              total_afirmacoes |-> SumOf(Column(es, "total_afirmacoes")),
              verificadas_ok |-> SumOf(Column(es, "verificadas_ok")),
              sem_fundamentacao |-> SumOf(Column(es, "sem_fundamentacao")),
              validadas |-> SumOf(Column(es, "validado"))]

\* ---------------------------------------------------------------------
\* the quality log: inputs

MaxCalls == 2       \* log_quality calls in a run
MaxLines == 1       \* lines the log holds when the run begins
MaxWriters == 2     \* concurrent log_quality invocations

Metrics855 ==
    [QualityMetrics EXCEPT !.validado = JBool(TRUE),
                           !.score_fidelidade = JFloat(855),
                           !.total_afirmacoes = JInt(2),
                           !.verificadas_ok = JInt(1),
                           !.sem_fundamentacao = JInt(1),
                           !.processos_verificados = JList(<< "HC 161.450" >>)]

Metrics900 ==
    [QualityMetrics EXCEPT !.validado = JBool(TRUE),
                           !.score_fidelidade = JFloat(900),
                           !.total_afirmacoes = JInt(1),
                           !.verificadas_ok = JInt(1)]

\* the arguments of a log_quality call
LogArgs ==
    { [query |-> "HC 161.450?", metrics |-> QualityMetrics, analyst_text |-> "",
       reviewer_text |-> "", checker_result |-> NoResult],
      [query |-> "a \"b\"\nc\\d", metrics |-> Metrics855,
       analyst_text |-> "HC 161.450 ", reviewer_text |-> "ok",
       checker_result |-> CheckerResult(<< >>)],
      [query |-> "HC 161.450?", metrics |-> Metrics900, analyst_text |-> "RE 9 ",
       reviewer_text |-> "", checker_result |-> NoResult] }

\* a record an earlier run wrote
Boa ==
    DumpsEntry(QualityLogEntry(0, "RE 9?",
                               [QualityMetrics EXCEPT !.score_fidelidade = JFloat(700)],
                               5, 2),
               NoResult)

SemTimestamp == [Boa EXCEPT !.keys = @ \ { "timestamp" }]
SemQuery == [Boa EXCEPT !.keys = @ \ { "query" }]
SemMetrics == [Boa EXCEPT !.keys = @ \ { "metrics" }]
MetricsNull == [Boa EXCEPT !.metrics = [t |-> "null"]]
CampoNovo == [Boa EXCEPT !.keys = @ \cup { "novo_campo" }]
ComChecker == [Boa EXCEPT !.keys = @ \cup { "checker" }, !.checker = CheckerResult(<< >>)]
MetricsCampoNovo == [Boa EXCEPT !.metrics.keys = @ \cup { "novo_campo" }]

StoredLines ==
    { Blank, InvalidJson, NonObject, SemTimestamp, SemQuery, SemMetrics,
      MetricsNull, CampoNovo, ComChecker, MetricsCampoNovo, Boa }

InitialLogs == UNION { [1..n -> StoredLines] : n \in 0..MaxLines }

IdleWriter == [pc |-> "idle", lines |-> << >>, pos |-> 0]

LogStart ==
    /\ log_inicial = log_file
    /\ escritos = << >>
    /\ entries = NoResult
    /\ report = NoResult
    /\ now = 1
    /\ comparison = NoResult
    /\ pc = "log"
    /\ raised = None
    /\ analyst_text = ""
    /\ query = ""
    /\ kg = KGVazio
    /\ claims = << >>
    /\ processos = << >>
    /\ claims_positivos = << >>
    /\ idx = 0
    /\ queries = << >>
    /\ result = NoResult
    /\ posicao = 0
    /\ mais_proximo = None
    /\ reviewer_text = None
    /\ metrics = NoResult

\* one caller of the log at a time
InitLog ==
    /\ log_file \in InitialLogs
    /\ writers = [w \in 1..1 |-> IdleWriter]
    /\ LogStart

\* several invocations of log_quality on the same file
InitConc ==
    /\ log_file \in { << >>, << Boa >> }
    /\ writers = [w \in 1..MaxWriters |-> IdleWriter]
    /\ LogStart

notlog ==
    << analyst_text, query, kg, claims, processos, claims_positivos, idx, queries,
       result, posicao, mais_proximo, reviewer_text, metrics, comparison >>

\* log_quality, lines 92-105: the entry and its JSON text
LogQualityEntry(w, a) ==
    /\ pc = "log"
    /\ writers[w].pc = "idle"
    /\ Len(escritos) < MaxCalls
    /\ LET entry == QualityLogEntry(now, a.query, a.metrics,
                                    Len(a.analyst_text), Len(a.reviewer_text))
       IN  /\ writers' = [writers EXCEPT ![w] =
                             [pc |-> "entry",
                              lines |-> TextLines(DumpsEntry(entry, a.checker_result)),
                              pos |-> 0]]
           /\ escritos' = Append(escritos, [entry |-> entry,
                                            checker |-> a.checker_result])
    /\ now' = now + 1
    /\ UNCHANGED << notlog, pc, raised, log_file, log_inicial, entries, report >>

\* log_quality, line 107: open(LOG_FILE, "a")
LogQualityOpen(w) ==
    /\ pc = "log"
    /\ writers[w].pc = "entry"
    /\ log_file' = OpenAppend(log_file)
    /\ writers' = [writers EXCEPT ![w].pc = "opened", ![w].pos = Len(log_file')]
    /\ UNCHANGED << notlog, pc, raised, log_inicial, escritos, entries, report, now >>

\* log_quality, line 108 and the end of the with block: the text is written
\* when the file is closed, in one write (what earlier reads of the file
\* returned is forgotten)
LogQualityWrite(w) ==
    /\ pc = "log"
    /\ writers[w].pc = "opened"
    /\ log_file' = WriteAtEnd(log_file, writers[w].pos, writers[w].lines)
    /\ writers' = [writers EXCEPT ![w] = IdleWriter]
    /\ entries' = NoResult
    /\ report' = NoResult
    /\ raised' = None
    /\ UNCHANGED << notlog, pc, log_inicial, escritos, now >>

\* a call of load_quality_log()
LoadQualityLog ==
    /\ pc = "log"
    /\ LET r == load_quality_log(log_file)
       IN  IF r.exc = ""
           THEN /\ entries' = [returned |-> TRUE, val |-> r.val]
                /\ raised' = None
           ELSE /\ entries' = NoResult
                /\ raised' = r.exc
    /\ UNCHANGED << notlog, pc, log_file, log_inicial, escritos, report, writers, now >>

\* a call of print_quality_report()
PrintQualityReport ==
    /\ pc = "log"
    /\ LET r == load_quality_log(log_file)
       IN  IF r.exc = ""
           THEN /\ report' = Report(r.val)
                /\ raised' = None
           ELSE /\ report' = NoResult
                /\ raised' = r.exc
    /\ UNCHANGED << notlog, pc, log_file, log_inicial, escritos, entries, writers, now >>

NextLog ==
    \/ \E w \in DOMAIN writers : \E a \in LogArgs : LogQualityEntry(w, a)
    \/ \E w \in DOMAIN writers : LogQualityOpen(w)
    \/ \E w \in DOMAIN writers : LogQualityWrite(w)
    \/ LoadQualityLog
    \/ PrintQualityReport

SpecLog == InitLog /\ [][NextLog]_vars

SpecConc == InitConc /\ [][NextLog]_vars

\* ---------------------------------------------------------------------
\* the quality log: properties

\* no log_quality call is under way
WritersIdle == \A w \in DOMAIN writers : writers[w].pc = "idle"

\* the lines written since the run began
Novas == SubSeq(log_file, Len(log_inicial) + 1, Len(log_file))

\* C13: the log is append-only: the step of a log_quality call that writes
\* adds exactly one line, a record, after the lines the file had, and every
\* other step of log_quality, load_quality_log and print_quality_report
\* leaves the file as it was
C13_SoAcrescenta ==
    [][ IF \E w \in DOMAIN writers :
              writers[w].pc = "opened" /\ writers'[w].pc = "idle"
        THEN /\ Len(log_file') = Len(log_file) + 1
             /\ SubSeq(log_file', 1, Len(log_file)) = log_file
             /\ log_file'[Len(log_file')].t = "object"
        ELSE log_file' = log_file ]_vars

\* two calls have appended to a log of one line, and the report was printed
C13_Witness ==
    /\ Len(log_inicial) = 1
    /\ Len(escritos) = 2
    /\ WritersIdle
    /\ Len(log_file) = 3
    /\ SubSeq(log_file, 1, 1) = log_inicial
    /\ report # NoResult

\* the score of the k-th log_quality call, in tenths
EscritoScore(k) == Tenths(escritos[k].entry.metrics.score_fidelidade)

\* the tenths a printed figure stands for
Printed(text) == Loads(text).n

\* C14: from an empty log, once N log_quality calls are over,
\* load_quality_log returns N entries, in write order, each with the query
\* and the fidelity score written; and the report prints N as the count, the
\* least and the greatest of the N scores, and their mean to the nearest tenth
C14_IdaEVolta ==
    (log_inicial = << >> /\ WritersIdle) =>
        LET N == Len(escritos)
        IN  /\ entries # NoResult =>
                /\ Len(entries.val) = N
                /\ \A k \in 1..N :
                      /\ entries.val[k].query = escritos[k].entry.query
                      /\ entries.val[k].metrics.score_fidelidade
                            = escritos[k].entry.metrics.score_fidelidade
            /\ report # NoResult =>
                IF N = 0 THEN report.vazio
                ELSE /\ ~report.vazio
                     /\ report.total = N
                     /\ \E k \in 1..N : Printed(report.minimo) = EscritoScore(k)
                     /\ \A k \in 1..N : Printed(report.minimo) <= EscritoScore(k)
                     /\ \E k \in 1..N : Printed(report.maximo) = EscritoScore(k)
                     /\ \A k \in 1..N : Printed(report.maximo) >= EscritoScore(k)
                     /\ LET soma == SumOf([k \in 1..N |-> EscritoScore(k)])
                            d == N * Printed(report.medio) - soma
                        IN  2 * d <= N /\ 2 * d >= 0 - N

\* two calls, the first with a query holding quotes, a backslash and a
\* newline, were loaded back, scores 85.5 and 90.0, and reported: the mean
\* 87.75 is printed as 87.8
C14_Witness ==
    /\ log_inicial = << >>
    /\ WritersIdle
    /\ Len(escritos) = 2
    /\ escritos[1].entry.query = "a \"b\"\nc\\d"
    /\ EscritoScore(1) = 855
    /\ EscritoScore(2) = 900
    /\ entries # NoResult
    /\ Len(entries.val) = 2
    /\ entries.val[1].query = "a \"b\"\nc\\d"
    /\ report # NoResult
    /\ report.medio = "87.8"
    /\ report.minimo = "85.5"
    /\ report.maximo = "90.0"

\* the lines C15 calls malformed, as the log of the run holds them
Malformadas == { InvalidJson, NonObject, SemTimestamp, SemQuery }

\* an object with timestamp and query
BemFormada(line) ==
    line.t = "object" /\ { "timestamp", "query" } \subseteq line.keys

\* the entries of the well-formed lines from line k on, in file order
RECURSIVE EntradasBemFormadas(_, _)
EntradasBemFormadas(file, k) ==
    IF k > Len(file) THEN << >>
    ELSE (IF BemFormada(file[k]) THEN LoadsLine(file[k]).entry ELSE << >>)
         \o EntradasBemFormadas(file, k + 1)

\* a read of the log has returned or raised
Lido == entries # NoResult \/ report # NoResult \/ raised # None

\* C15: on a log whose lines are records or malformed (invalid JSON, JSON
\* that is no object, an object lacking timestamp or query), a read of the
\* log does not fail, and load_quality_log returns the entries of the
\* well-formed lines, those after a malformed line included
C15_LinhasMalformadas ==
    ((\A k \in 1..Len(log_file) :
          log_file[k] \in Malformadas
          \/ (BemFormada(log_file[k]) /\ LoadsLine(log_file[k]).exc = ""))
     /\ Lido)
        => /\ raised = None
           /\ entries # NoResult => entries.val = EntradasBemFormadas(log_file, 1)

\* the lines with a field load_quality_log does not know
CamposNovos == { CampoNovo, ComChecker, MetricsCampoNovo }

\* C16: a line with unknown fields, at the top level or inside metrics, is
\* returned by load_quality_log as an entry with its known fields
C16_CamposDesconhecidos ==
    entries # NoResult =>
        \A k \in 1..Len(log_file) :
            log_file[k] \in CamposNovos =>
                \E j \in 1..Len(entries.val) :
                    entries.val[j] = LoadsLine(Boa).entry[1]

\* the text of the k-th log_quality call
EscritoLine(k) == DumpsEntry(escritos[k].entry, escritos[k].checker)

\* the calls whose text is still with its writer
Pendentes == { writers[w].lines : w \in { v \in DOMAIN writers : writers[v].pc # "idle" } }

\* the texts of the calls that have returned
Feitas == { EscritoLine(k) : k \in 1..Len(escritos) } \ { ls[1] : ls \in Pendentes }

Concordancia(num, den) ==
    IF num <= 10 * den THEN "ALTA"
    ELSE IF num <= 25 * den THEN "MODERADA"
    ELSE "BAIXA"

\* comparar_com_llm with `diff = checker.score - llm_score`
comparar_sem_abs(checker, llm_score) ==
    LET num == 10 * checker.score.num - Tenths(llm_score) * checker.score.den
        den == 10 * checker.score.den
    IN  [returned |-> TRUE, concordancia |-> Concordancia(num, den)]

\* comparar_com_llm(checker, llm_score): diff = abs(checker.score - llm_score),
\* the score a fraction, llm_score in tenths; inf and nan compare as Python
\* compares them
comparar_com_llm(checker, llm_score) ==
    IF llm_score.t \in { "inf", "nan" }
    THEN [returned |-> TRUE, concordancia |-> "BAIXA"]
    ELSE LET num == Abs(10 * checker.score.num - Tenths(llm_score) * checker.score.den)
             den == 10 * checker.score.den
         IN  [returned |-> TRUE, concordancia |-> Concordancia(num, den)]

MaxTotal == 5       \* claims of the CheckerResult compared
MaxLlm == 200       \* the second score, in halves of a point

\* a CheckerResult with ok of total claims found
CheckerResults ==
    { r \in { [total_claims |-> total, verificados_ok |-> ok,
       verificados_falha |-> total - ok, score |-> Score(ok, total),
       claims |-> << >>, concordancia_llm |-> Frac(0, 1)] :
               total \in 0..MaxTotal, ok \in 0..MaxTotal } :
        r.verificados_ok <= r.total_claims }

LlmScores == { JFloat(5 * k) : k \in 0..MaxLlm }

InitCompare ==
    /\ result \in CheckerResults
    /\ metrics \in { [QualityMetrics EXCEPT !.score_fidelidade = x] : x \in LlmScores }
    /\ pc = "comparar"
    /\ raised = None
    /\ analyst_text = ""
    /\ query = ""
    /\ kg = KGVazio
    /\ claims = << >>
    /\ processos = << >>
    /\ claims_positivos = << >>
    /\ idx = 0
    /\ queries = << >>
    /\ posicao = 0
    /\ mais_proximo = None
    /\ reviewer_text = None
    /\ LogIdle

\* a call of comparar_com_llm(result, metrics.score_fidelidade)
CompararComLlm ==
    /\ pc = "comparar"
    /\ comparison' = comparar_com_llm(result, metrics.score_fidelidade)
    /\ pc' = "returned"
    /\ UNCHANGED << inputs, claims, processos, claims_positivos, idx, queries,
                    result, raised, posicao, mais_proximo, reviewer_text, metrics,
                    log_file, log_inicial, escritos, entries, report, writers, now >>

NextCompare == CompararComLlm

SpecCompare == InitCompare /\ [][NextCompare]_vars

\* the two scores of the call, in tenths of a point over a common
\* denominator, and which of the two is the larger
ScoreChecker == 10 * result.score.num
ScoreLlm == metrics.score_fidelidade.n * result.score.den
Maior == IF ScoreChecker >= ScoreLlm THEN ScoreChecker ELSE ScoreLlm
Menor == IF ScoreChecker >= ScoreLlm THEN ScoreLlm ELSE ScoreChecker

\* C19: with d the larger score minus the smaller, comparar_com_llm gives
\* ALTA when d <= 10, MODERADA when 10 < d <= 25 and BAIXA when d > 25
C19_Concordancia ==
    (pc = "returned" /\ comparison # NoResult) =>
        LET d == Maior - Menor
            ten == 10 * 10 * result.score.den
            twentyfive == 25 * 10 * result.score.den
        IN  /\ d <= ten => comparison.concordancia = "ALTA"
            /\ (d > ten /\ d <= twentyfive) => comparison.concordancia = "MODERADA"
            /\ d > twentyfive => comparison.concordancia = "BAIXA"

\* checker score 80.0 against 55.0, at the boundary 25 with the checker's
\* score the larger: MODERADA
C19_Witness ==
    /\ pc = "returned"
    /\ result.score = Frac(80, 1)
    /\ metrics.score_fidelidade = JFloat(550)
    /\ comparison # NoResult
    /\ comparison.concordancia = "MODERADA"

\* ---------------------------------------------------------------------
\* src/agents/team.py: STFTeam.run

\* what the analyst agent answers ("" when it gives no content)
TeamAnswers ==
    { "", "HC 161.450 Min. Gilmar Mendes ", "nenhum registro ",
      "nenhum registro HC 161.450 " }

\* what the reviewer agent answers: the captures of the three patterns and
\* the length of the text
TeamReviews ==
    { [metrics_block |-> NoMatch, json_block |-> NoMatch, inline |-> NoMatch,
       chars |-> 0],
      [metrics_block |-> FullObject, json_block |-> NoMatch, inline |-> NoMatch,
       chars |-> 214],
      [metrics_block |-> Invalid, json_block |-> NoMatch, inline |-> FullObject,
       chars |-> 230],
      [metrics_block |-> Value(JList(<< >>)), json_block |-> NoMatch,
       inline |-> NoMatch, chars |-> 29] }

InitTeam ==
    /\ query \in Queries
    /\ kg \in KGs
    /\ analyst_text = ""
    /\ reviewer_text = None
    /\ metrics = NoResult
    /\ pc = "team_run"
    /\ claims = << >>
    /\ processos = << >>
    /\ claims_positivos = << >>
    /\ idx = 0
    /\ queries = << >>
    /\ result = NoResult
    /\ raised = None
    /\ posicao = 0
    /\ mais_proximo = None
    /\ log_file \in { << >>, << Boa >> }
    /\ log_inicial = log_file
    /\ escritos = << >>
    /\ entries = NoResult
    /\ report = NoResult
    /\ writers = << >>
    /\ now = 1
    /\ comparison = NoResult

\* TeamAnalyst without the early return of lines 51-52
TeamAnalystSemRetorno ==
    /\ pc = "team_run"
    /\ analyst_text' \in TeamAnswers
    /\ pc' = "team_reviewer"
    /\ UNCHANGED << query, kg, claims, processos, claims_positivos, idx, queries,
                    result, raised, outside >>

\* run, lines 48-52: the analyst's answer; no answer ends the call
TeamAnalyst ==
    /\ pc = "team_run"
    /\ \E text \in TeamAnswers :
          /\ analyst_text' = text
          /\ pc' = IF text = "" THEN "team_returned" ELSE "team_reviewer"
    /\ UNCHANGED << query, kg, claims, processos, claims_positivos, idx, queries,
                    result, raised, outside >>

\* run, lines 62-63: the reviewer's answer; run_checker is called next
TeamReviewer ==
    /\ pc = "team_reviewer"
    /\ reviewer_text' \in TeamReviews
    /\ pc' = "run_checker"
    /\ UNCHANGED << inputs, claims, processos, claims_positivos, idx, queries,
                    result, raised, posicao, mais_proximo, metrics, logvars >>

\* run, line 71: metrics = parse_metrics_from_review(reviewer_text)
TeamParseMetrics ==
    /\ pc = "done"
    /\ LET r == parse_metrics_from_review(reviewer_text)
       IN  IF r.exc = ""
           THEN /\ metrics' = r.val
                /\ pc' = "team_log"
                /\ UNCHANGED raised
           ELSE /\ raised' = r.exc
                /\ pc' = "raised"
                /\ UNCHANGED metrics
    /\ UNCHANGED << inputs, claims, processos, claims_positivos, idx, queries,
                    result, posicao, mais_proximo, reviewer_text, logvars >>

\* run, line 72: log_quality(query, metrics, analyst_text, reviewer_text,
\* checker_result), the whole call
TeamLogQuality ==
    /\ pc = "team_log"
    /\ LET entry == QualityLogEntry(now, query, metrics,
                                    Len(analyst_text), reviewer_text.chars)
       IN  /\ log_file' = WriteAtEnd(OpenAppend(log_file), Len(log_file),
                                     TextLines(DumpsEntry(entry, result)))
           /\ escritos' = Append(escritos, [entry |-> entry, checker |-> result])
    /\ now' = now + 1
    /\ pc' = "team_comparar"
    /\ UNCHANGED << inputs, claims, processos, claims_positivos, idx, queries,
                    result, raised, posicao, mais_proximo, reviewer_text, metrics,
                    log_inicial, entries, report, writers, comparison >>

\* run, lines 73-83: the comparison and the response
TeamComparar ==
    /\ pc = "team_comparar"
    /\ comparison' = comparar_com_llm(result, metrics.score_fidelidade)
    /\ pc' = "team_returned"
    /\ UNCHANGED << inputs, claims, processos, claims_positivos, idx, queries,
                    result, raised, posicao, mais_proximo, reviewer_text, metrics,
                    log_file, log_inicial, escritos, entries, report, writers, now >>

NextTeam ==
    \/ TeamAnalyst
    \/ TeamReviewer
    \/ Detectar
    \/ VerificarClaimNegativo
    \/ ExtrairClaims
    \/ VerificarClaim
    \/ Agregar
    \/ TeamParseMetrics
    \/ TeamLogQuality
    \/ TeamComparar

SpecTeam == InitTeam /\ [][NextTeam]_vars

\* the call of run is over, by return or by an exception
TeamOver == pc \in { "team_returned", "raised" }

\* the question was processed: the analyst answered and the checker returned
\* its result
Processada == analyst_text # "" /\ result # NoResult

\* the one record of the question: the question, the parsed metrics, the
\* lengths of the two texts and the summary of the checker's result
RegistroDaPergunta ==
    /\ Len(Novas) = 1
    /\ Novas[1].t = "object"
    /\ LoadsLine(Novas[1]).exc = ""
    /\ LET e == LoadsLine(Novas[1]).entry[1]
       IN  /\ e.query = query
           /\ e.metrics = metrics
           /\ e.analyst_chars = Len(analyst_text)
           /\ e.reviewer_chars = reviewer_text.chars
    /\ "checker" \in Novas[1].keys
    /\ Novas[1].checker = result

\* C18: a call of STFTeam.run that processed its question has appended
\* exactly one record to the log, with the question, the parsed metrics, the
\* lengths of the analyst's and the reviewer's texts and the checker's summary
C18_UmRegistro ==
    /\ SubSeq(log_file, 1, Len(log_inicial)) = log_inicial
    /\ Len(Novas) <= 1
    /\ (TeamOver /\ Processada) => RegistroDaPergunta

\* what does hold: a call that returns after the analyst answered has
\* appended the one record
UmRegistroAoRetornar ==
    (pc = "team_returned" /\ analyst_text # "") => RegistroDaPergunta

\* ---------------------------------------------------------------------
\* _verificar_claim_negativo: which rows match the question

\* the tokens of s: its maximal runs of word characters
Tokens(s) ==
    { SubSeq(s, p[1], p[2]) :
        p \in { r \in (1..Len(s)) \X (1..Len(s)) :
                  /\ r[1] <= r[2]
                  /\ \A k \in r[1]..r[2] : Char(s, k) \in WordSet
                  /\ (r[1] = 1 \/ Char(s, r[1] - 1) \notin WordSet)
                  /\ (r[2] = Len(s) \/ Char(s, r[2] + 1) \notin WordSet) } }

\* a is a substring of b
Dentro(a, b) == \E i \in 1..(Len(b) - Len(a) + 1) : SubSeq(b, i, i + Len(a) - 1) = a

\* the lowercased tokens of the question that are longer than n characters
\* and not in the stop-word list, with the synonyms of those the table has
TokensExpandidos(q, n) ==
    LET base == { t \in { lower(w) : w \in { v \in Tokens(q) : Len(v) > n } } :
                    t \notin stopwords }
    IN  base \cup UNION { sinonimos[t] : t \in base \cap DOMAIN sinonimos }

\* (a) E and D share a token, or (b) a token of E of length at least 4 is a
\* substring of, or contains, a token of D
Emparelha(E, D) ==
    \/ E \cap D # { }
    \/ \E e \in E : \E d \in D : Len(e) >= 4 /\ (Dentro(e, d) \/ Dentro(d, e))

\* row k of the theme scan was matched: its negation claim is in the list
LinhaCasada(k) ==
    NegacaoIncorreta(QueryTemas(kg)[k]) \in { claims[j] : j \in 1..Len(claims) }

\* C20: a row of the theme scan is matched if and only if, with E the
\* lowercased tokens of the question longer than two characters and outside
\* the stop-word list, expanded by the synonym table, and D the tokens of the
\* lowercased description, E and D share a token or a token of E of length at
\* least 4 is a substring of, or contains, a token of D
C20_Casamento ==
    NegacaoFeita =>
        \A k \in 1..Len(kg.trata_de) :
            LinhaCasada(k) <=>
                Emparelha(TokensExpandidos(query, 2),
                          Tokens(lower(kg.trata_de[k].descricao)))

\* the question "Existe HC?" and the theme with the token "HC": the row is
\* not matched, the one negation claim confirms the absence
C20_Witness ==
    /\ NegacaoFeita
    /\ query = "Existe HC?"
    /\ kg.trata_de = << TemaRows[3] >>
    /\ ~LinhaCasada(1)
    /\ Len(claims) >= 1
    /\ claims[1] = NegacaoCorreta

\* C20 as stated, E made of all the question's tokens outside the stop-word
\* list
C20_Original ==
    NegacaoFeita =>
        \A k \in 1..Len(kg.trata_de) :
            LinhaCasada(k) <=>
                Emparelha(TokensExpandidos(query, 0),
                          Tokens(lower(kg.trata_de[k].descricao)))

\* ---------------------------------------------------------------------
\* the synonym table

\* C21: whenever a keyword a of the question is expanded with a term b, the
\* question made of b alone is expanded with a
C21_Bidirecional ==
    NegacaoFeita =>
        \A a \in palavras_query(query) \cap DOMAIN sinonimos :
            \A b \in sinonimos[a] : a \in palavras_expandidas(b)

\* ---------------------------------------------------------------------
\* the order of the steps of a pass

\* this step issued a query of the given kinds
Issued(kinds) ==
    /\ Len(queries') = Len(queries) + 1
    /\ queries'[Len(queries')].kind \in kinds

Lookups == { "processo", "relator", "artigo", "tema" }

\* C22: the theme scan of the negation check is issued before the claims
\* are extracted and before any per-claim lookup; the lookups come after the
\* extraction and before the score; the score is computed after the last
\* lookup; the log record is written after the score is computed
C22_OrdemDosPassos ==
    [][ /\ Issued({ "temas" }) => (idx = 0 /\ queries = << >> /\ result = NoResult)
        /\ Issued(Lookups) => (idx >= 1 /\ result = NoResult)
        /\ (result = NoResult /\ result' # NoResult) =>
              (idx > Len(claims_positivos) /\ queries' = queries)
        /\ log_file' # log_file => (result # NoResult /\ queries' = queries) ]_vars

\* a pass with the theme scan, then a lookup, then the score, then the record
C22_Witness ==
    /\ pc = "team_returned"
    /\ Len(queries) >= 2
    /\ queries[1].kind = "temas"
    /\ queries[2].kind = "processo"
    /\ result # NoResult
    /\ Len(Novas) = 1

\* C22 as stated: the theme scan is issued after the claims were extracted
C22_Original ==
    [][ Issued({ "temas" }) => idx >= 1 ]_vars

\* ---------------------------------------------------------------------
\* the order of the claims returned

\* the place of a kind of claim in the list, the negation claims at place n
Rank(tipo, n) ==
    CASE tipo = "processo" -> 1
      [] tipo = "relator" -> 2
      [] tipo = "artigo" -> 3
      [] OTHER -> n

\* the claims of the result are grouped by kind, the negation claims at
\* place n among the groups
Agrupados(n) ==
    \A i \in 1..Len(result.claims) : \A j \in i..Len(result.claims) :
        Rank(result.claims[i].tipo, n) <= Rank(result.claims[j].tipo, n)

Varreduras == IF detectar_claim_negativo(analyst_text) THEN 1 ELSE 0

\* the negation claims of the result
Negacoes == SelectSeq(result.claims, LAMBDA c : c.tipo = "negação")

\* C24: when run_checker returns it has issued one theme scan if and only
\* if the answer holds a negation phrase, whatever the number of negation
\* claims, and after it exactly one lookup per case, reporter and article
\* claim, of the kind of that claim and in the order of the claims
C24_UmaConsultaPorClaim ==
    result # NoResult =>
        /\ Len(queries) = Varreduras + Len(claims_positivos)
        /\ \A k \in 1..Varreduras : queries[k].kind = "temas"
        /\ \A i \in 1..Len(claims_positivos) :
              queries[Varreduras + i].kind = claims_positivos[i].tipo

\* a pass with a negation and two other claims, one of them not a case
\* claim, has issued three lookups
C24_Witness ==
    /\ result # NoResult
    /\ Len(Negacoes) >= 1
    /\ Len(claims_positivos) = 2
    /\ claims_positivos[2].tipo # "processo"
    /\ Len(queries) = 3

\* ---------------------------------------------------------------------
\* the verification of one claim and the other claims

\* the claims of the pass as extrair_claims returned them
Extraidos == extrair_claims(analyst_text, processos)

\* Extraidos with the kind, the case and the value of each claim only
Afirmado(cs) ==
    [i \in 1..Len(cs) |-> << cs[i].tipo, cs[i].processo, cs[i].valor >>]

\* C25: while verificar_claims runs and after it, the list holds the claims
\* extrair_claims returned, in the same order; a claim already visited has
\* the outcome that the content of the graph gives to its kind, case and
\* value, whatever the other claims of the list and their outcomes, and a
\* claim not yet visited is as it was extracted
C25_Independente ==
    (pc \in { "verificar", "done" } /\ raised = None) =>
        /\ Afirmado(claims_positivos) = Afirmado(Extraidos)
        /\ \A i \in 1..Len(claims_positivos) :
              IF i < idx
                 THEN /\ claims_positivos[i].verificado
                      /\ claims_positivos[i].encontrado_no_kg =
                            VerificarUm(kg, Extraidos[i])
                 ELSE claims_positivos[i] = Extraidos[i]

\* the case claims of two cases verified in the order opposite to the one
\* of the identifiers, and two claims about one case with two outcomes
C25_Witness ==
    /\ result # NoResult
    /\ Len(processos) = 2
    /\ processos[1] = "RE 9"
    /\ processos[2] = "HC 161.450"
    /\ \E i, j \in 1..Len(claims_positivos) :
          /\ claims_positivos[i].processo = claims_positivos[j].processo
          /\ claims_positivos[i].encontrado_no_kg
          /\ ~ claims_positivos[j].encontrado_no_kg

\* ---------------------------------------------------------------------
\* two runs over the same inputs

\* C26: the list of cases that extrair_processos_citados returned, and the
\* claims extracted with it, are the ones every run over the same answer
\* obtains: the answer allows the list one order only
C26_Reprodutivel ==
    Extraido =>
        \A ps \in Orders(extrair_processos_citados(analyst_text)) :
            /\ processos = ps
            /\ claims_positivos = extrair_claims(analyst_text, ps)

\* ---------------------------------------------------------------------
\* the negation claims of a result

\* the theme rows of the graph that the question matches
LinhasCasadas ==
    { k \in 1..Len(QueryTemas(kg)) :
        TemaMatches(palavras_expandidas(query), QueryTemas(kg)[k].tema) }

\* C27: a result holds negation claims if and only if the answer matches a
\* negation pattern, and then either one claim, confirmed and about "N/A",
\* or claims that are all unconfirmed, each about the case of a theme row
\* that the question matches
C27_NegacoesCoerentes ==
    result # NoResult =>
        /\ (Negacoes # << >>) <=> detectar_claim_negativo(analyst_text)
        /\ Negacoes # << >> =>
              \/ /\ Len(Negacoes) = 1
                 /\ Negacoes[1].encontrado_no_kg
                 /\ Negacoes[1].processo = "N/A"
              \/ \A n \in 1..Len(Negacoes) :
                    /\ ~ Negacoes[n].encontrado_no_kg
                    /\ \E k \in LinhasCasadas :
                          QueryTemas(kg)[k].processo = Negacoes[n].processo

\* a result with two unconfirmed negation claims about two cases
C27_Witness ==
    /\ result # NoResult
    /\ Len(Negacoes) = 2
    /\ ~ Negacoes[1].encontrado_no_kg
    /\ ~ Negacoes[2].encontrado_no_kg
    /\ Negacoes[1].processo # Negacoes[2].processo

\* ---------------------------------------------------------------------
\* STFTeam.run: the record and the return of run_checker

\* C28: a step changes the log only once run_checker has returned; the
\* step by which a run whose analyst gave no answer returns is the step of
\* the analyst itself, straight from the start of run, so that no reviewer
\* was called, no lookup issued, no result computed and the log left as it
\* was; the step by which run_checker ends with the data source's error
\* leaves the log as it was when run started
C28_RegistroSoDepoisDoChecker ==
    [][ /\ log_file' # log_file => (result # NoResult /\ pc = "team_log")
        /\ (pc' = "team_returned" /\ analyst_text' = "") =>
              /\ pc = "team_run"
              /\ UNCHANGED << reviewer_text, queries, result, metrics, logvars >>
        /\ (pc' = "raised" /\ result' = NoResult) =>
              /\ raised' = "ServiceUnavailable"
              /\ queries'[Len(queries')].outcome = "ServiceUnavailable"
              /\ metrics' = NoResult
              /\ log_file' = log_inicial ]_vars

\* run_checker has raised at its second lookup and the log holds the one
\* record it held before
C28_Witness ==
    /\ pc = "raised"
    /\ result = NoResult
    /\ Len(queries) = 2
    /\ analyst_text # ""
    /\ Len(log_inicial) = 1
    /\ log_file = log_inicial

\* ---------------------------------------------------------------------
\* _processo_mais_proximo: what a list that is not empty gives

\* no identifier of the list occurs in the text, whatever the case of the
\* letters
NenhumOcorre == \A k \in 1..Len(processos) : TodasOcorrencias(processos[k]) = {}

\* C29: for a list that is not empty _processo_mais_proximo returns an
\* identifier of the list, one that the `if proc_mais_proximo` test of
\* extrair_claims accepts, and when no identifier of the list occurs in
\* the text it returns the first of the list
C29_SempreUmMembro ==
    (pc = "returned" /\ processos # << >>) =>
        /\ Truthy(mais_proximo)
        /\ \E k \in 1..Len(processos) : mais_proximo = processos[k]
        /\ NenhumOcorre => mais_proximo = processos[1]

\* the text writes the case with two spaces, no identifier of a list of
\* two occurs in it, and the first of the list is returned
C29_Witness ==
    /\ pc = "returned"
    /\ Len(processos) = 2
    /\ Contains(analyst_text, "HC  161.450")
    /\ NenhumOcorre
    /\ mais_proximo = processos[1]

\* ---------------------------------------------------------------------
\* a question that leaves no keyword

\* every token of the question is a stop-word or has at most 2 characters
SemPalavraChave == TokensExpandidos(query, 2) = { }

\* C30: when the question leaves no keyword and the answer holds a negation
\* phrase, the result holds exactly one negation claim, verified, confirmed
\* and about "N/A", whatever theme rows the graph holds
C30_SemPalavraChave ==
    (result # NoResult /\ detectar_claim_negativo(analyst_text) /\ SemPalavraChave) =>
        /\ Len(Negacoes) = 1
        /\ Negacoes[1].processo = "N/A"
        /\ Negacoes[1].verificado
        /\ Negacoes[1].encontrado_no_kg
        /\ result.claims[1] = Negacoes[1]

\* a question of stop-words and of a token of 2 characters, a graph with two
\* theme rows that hold tokens of the question, and the negation confirmed
C30_Witness ==
    /\ result # NoResult
    /\ query = "De que tema trata o uso do HC?"
    /\ SemPalavraChave
    /\ Len(QueryTemas(kg)) = 2
    /\ \A k \in 1..2 : Tokens(lower(QueryTemas(kg)[k].tema)) \cap { "uso", "hc" } # { }
    /\ Len(Negacoes) = 1
    /\ Negacoes[1].encontrado_no_kg

====
